---- MODULE Spec2Model ----
(***************************************************************************)
(* Document-review agent (src/core/agent.py): the workflow orchestrator,   *)
(* the advisory run lock and plan-execution entry point, and the change    *)
(* selection / application engine, as state machines over the Run State.   *)
(*                                                                         *)
(* Python values are represented as follows.  A string-valued field that   *)
(* may be None holds the string None.  An optional list / dict / text      *)
(* argument is the empty tuple <<>> when it is None and <<v>> when it is   *)
(* the value v.  A list of ids that is used only for membership tests is a *)
(* set.  A text whose characters matter (original_text) is a tuple of      *)
(* one-character strings.  Timestamps are the value of the clock `now`;    *)
(* NoTime stands for a None timestamp.                                     *)
(***************************************************************************)
EXTENDS Integers, Sequences, FiniteSets, TLC

VARIABLES
    state,      \* the Run State (AgentState) the operations mutate in place
    now,        \* the wall clock read by _utcnow_iso
    lockcall,   \* the last direct _acquire_run_lock / _release_run_lock call
    orch,       \* the orchestrate call in progress (or the last one)
    events,     \* the events the current call has emitted through _emit_event
    sel,        \* the last _select_changes_for_application call and its result
    p3,         \* the run_phase3 call in progress (or the last one)
    hum,        \* per session, its handle_user_message call and where it stands
    vfs,        \* the last call made on the virtual file system adapter
    rg,         \* the assistant router's run: its state, step count and result
    toolcall    \* the last direct _call_tool call and how it ended

vars == <<state, now, lockcall, orch, events, sel, p3, hum, vfs, rg, toolcall>>

None == "None"
NoExc == "ok"
NoTime == 0

\* The sessions that drive the run.
Sessions == {"A", "B"}

\* A session that has made no handle_user_message call yet.
NoHumCall ==
    [pc |-> "idle", owner |-> None, auto |-> TRUE, acquired |-> FALSE,
     plan |-> <<>>, requires_confirmation |-> FALSE, results |-> <<>>,
     status |-> "failed", exc |-> NoExc]

NoHum == [s \in Sessions |-> NoHumCall]

\* No call has been made on the virtual file system adapter yet.
NoVfs ==
    [op |-> "none", path |-> <<>>, data |-> "", exc |-> NoExc, result |-> ""]

\* No direct _call_tool call has been made yet.
NoTool == [op |-> "none", tool_name |-> None, exc |-> NoExc]

\* The assistant router has not been run yet.
NoRg ==
    [pc |-> "idle", llm |-> TRUE, selected_block_ids |-> {}, block_metadata |-> {},
     control |-> None, last_node |-> None, step |-> 0, logs |-> <<>>,
     selected_blocks |-> {}, classifier |-> None, intent |-> None,
     requires_doc_search |-> FALSE, block_suggestions |-> <<>>,
     response |-> None, final_output |-> <<>>, output |-> <<>>]

\* No run_phase3 call has been made yet.  The arguments and the selection of
\* a call are kept while the call is between its two nodes.
NoPhase3 ==
    [pc |-> "idle", change_ids |-> <<>>, severity_filter |-> None,
     selected |-> <<>>]

\* No selection call has been made yet.
NoSel ==
    [called |-> FALSE, op |-> "none", change_ids |-> <<>>,
     severity_filter |-> None, plan |-> <<>>, requested |-> {},
     selected |-> <<>>, warnings |-> {}]

\* No orchestrate call has been made yet.
NoOrch ==
    [pc |-> "idle", caller |-> None, stop |-> {}, start |-> None,
     executed |-> <<>>, outcomes |-> <<>>, left |-> <<>>, llm |-> TRUE]

\* Largest clock value explored.
MaxTime == 4

\* The Run State built by _initialise_state.
NewState ==
    [ control |-> "phase0_ingestion",
      last_node |-> None,
      errors |-> <<>>,
      phase1_status |-> "pending",
      phase2_status |-> "pending",
      phase3_status |-> "pending",
      locked_by |-> None,
      lock_timestamp |-> NoTime,
      raw_text |-> "",
      version |-> 1,
      suggested_changes |-> <<>>,
      applied_change_ids |-> {},
      failed_changes |-> {},
      change_selection_plan |-> <<>>,
      skipped_changes |-> <<>>,
      new_raw_text |-> None,
      pre_apply_text |-> <<>>,
      vfs_artifacts |-> <<>>,
      toc_review |-> None,
      phase2_data |-> <<>>,
      doc_summary |-> None,
      template_fitness_report |-> None,
      section_strategy |-> None,
      chunks |-> <<>>,
      reviews |-> {},
      summary_report |-> None ]

(***************************************************************************)
(* Advisory run lock                                                       *)
(***************************************************************************)

\* _acquire_run_lock after `owner = state.get("locked_by")` has been read.
AcquireWithOwnerNoConflictCheck(st, owner, session_id, t) ==
    IF owner = session_id
    THEN [st |-> st, exc |-> NoExc]
    ELSE [st |-> [st EXCEPT !.locked_by = session_id, !.lock_timestamp = t],
          exc |-> NoExc]

AcquireWithOwnerRefreshesTimestamp(st, owner, session_id, t) ==
    IF owner # None /\ owner # session_id
    THEN [st |-> st, exc |-> "RunLocked"]
    ELSE [st |-> [st EXCEPT !.locked_by = session_id, !.lock_timestamp = t],
          exc |-> NoExc]

AcquireWithOwner(st, owner, session_id, t) ==
    IF owner # None /\ owner # session_id
    THEN [st |-> st, exc |-> "RunLocked"]
    ELSE IF owner = session_id
    THEN [st |-> st, exc |-> NoExc]
    ELSE [st |-> [st EXCEPT !.locked_by = session_id, !.lock_timestamp = t],
          exc |-> NoExc]

AcquireRunLock(st, session_id, t) ==
    AcquireWithOwner(st, st.locked_by, session_id, t)

ReleaseRunLockByAnyone(st, session_id) ==
    [st EXCEPT !.locked_by = None, !.lock_timestamp = NoTime]

ReleaseRunLock(st, session_id) ==
    IF st.locked_by = session_id
    THEN [st EXCEPT !.locked_by = None, !.lock_timestamp = NoTime]
    ELSE st

NoCall == [op |-> "none", session |-> None, exc |-> NoExc,
           pre_owner |-> None, pre_ts |-> NoTime]

Tick ==
    /\ now < MaxTime
    /\ now' = now + 1
    /\ UNCHANGED <<state, lockcall, orch, events, sel, p3, hum, vfs, rg, toolcall>>

AcquireCall(s) ==
    LET r == AcquireRunLock(state, s, now) IN
    /\ state' = r.st
    /\ lockcall' = [op |-> "acquire", session |-> s, exc |-> r.exc,
                    pre_owner |-> state.locked_by,
                    pre_ts |-> state.lock_timestamp]
    /\ UNCHANGED <<now, orch, events, sel, p3, hum, vfs, rg, toolcall>>

ReleaseCall(s) ==
    /\ state' = ReleaseRunLock(state, s)
    /\ lockcall' = [op |-> "release", session |-> s, exc |-> NoExc,
                    pre_owner |-> state.locked_by,
                    pre_ts |-> state.lock_timestamp]
    /\ UNCHANGED <<now, orch, events, sel, p3, hum, vfs, rg, toolcall>>

InitLock ==
    /\ state = NewState
    /\ now = 1
    /\ lockcall = NoCall
    /\ orch = NoOrch
    /\ events = <<>>
    /\ sel = NoSel
    /\ p3 = NoPhase3
    /\ hum = NoHum
    /\ vfs = NoVfs
    /\ rg = NoRg
    /\ toolcall = NoTool

NextLock ==
    \/ Tick
    \/ \E s \in Sessions : AcquireCall(s)
    \/ \E s \in Sessions : ReleaseCall(s)

SpecLock == InitLock /\ [][NextLock]_vars

(***************************************************************************)
(* Workflow orchestrator                                                   *)
(***************************************************************************)

\* Largest number of entries of state.errors explored.
MaxErrors == 2

NodeTransitionsSkippingHolisticChecks ==
    [ phase0_ingestion |-> "phase1_toc_review",
      phase1_toc_review |-> "phase2_synthesis",
      phase2_holistic_checks |-> "phase2_synthesis",
      phase2_synthesis |-> "completed" ]

NODE_TRANSITIONS ==
    [ phase0_ingestion |-> "phase1_toc_review",
      phase1_toc_review |-> "phase2_holistic_checks",
      phase2_holistic_checks |-> "phase2_synthesis",
      phase2_synthesis |-> "completed" ]

ORCHESTRATOR_WAIT_STATES == {"completed", "failed"}

\* The control names _build_node_registry registers a handler for.
NodeRegistry ==
    {"phase0_ingestion", "phase1_toc_review", "phase2_holistic_checks",
     "phase2_synthesis"}

\* What the handler `func(state)` called by _run_node can do as far as the
\* orchestrator sees it: return leaving control alone, return after setting
\* control itself (a wait or failure state, or the name of a node), or raise.
HandlerOutcomes ==
    {[kind |-> "ok", control |-> None], [kind |-> "raise", control |-> None]}
    \cup {[kind |-> "goto", control |-> c] :
              c \in {"failed", "await_change_instruction", "phase2_synthesis"}}

Event(type, node, status) == [type |-> type, node |-> node, status |-> status]

ErrorEntry(node, text) == [node |-> node, text |-> text]

\* The effect of the handler on the state when it returns.
HandlerResult(node_id, st, outcome) ==
    IF outcome.kind = "goto" THEN [st EXCEPT !.control = outcome.control] ELSE st

\* _run_node around a handler that has run: `after` is the state as the
\* handler left it (when it raised, as it was at the raise), `inner` the
\* events the handler emitted itself.
WrapNodeFailureNotRecorded(node_id, raised, after, inner) ==
    IF raised
    THEN [st |-> after,
          exc |-> "NodeError",
          evs |-> <<Event("node_started", node_id, None)>> \o inner
                  \o <<Event("node_completed", node_id, "failed")>>]
    ELSE [st |-> [after EXCEPT !.last_node = node_id],
          exc |-> NoExc,
          evs |-> <<Event("node_started", node_id, None)>> \o inner
                  \o <<Event("node_completed", node_id, "success")>>]

WrapNode(node_id, raised, after, inner) ==
    IF raised
    THEN [st |-> [after EXCEPT !.errors = Append(@, ErrorEntry(node_id, "failed"))],
          exc |-> "NodeError",
          evs |-> <<Event("node_started", node_id, None)>> \o inner
                  \o <<Event("node_completed", node_id, "failed")>>]
    ELSE [st |-> [after EXCEPT !.last_node = node_id],
          exc |-> NoExc,
          evs |-> <<Event("node_started", node_id, None)>> \o inner
                  \o <<Event("node_completed", node_id, "success")>>]

\* _run_node for a handler of the node registry.
RunNode(node_id, st, outcome) ==
    WrapNode(node_id, outcome.kind = "raise", HandlerResult(node_id, st, outcome),
             <<>>)

\* _advance_control
AdvanceControlAlwaysCompleted(current_control, st) ==
    IF st.control # current_control THEN st
    ELSE [st EXCEPT !.control = "completed"]

AdvanceControlIgnoresHandler(current_control, st) ==
    IF current_control \in DOMAIN NODE_TRANSITIONS
    THEN [st EXCEPT !.control = NODE_TRANSITIONS[current_control]]
    ELSE [st EXCEPT !.control = "completed"]

AdvanceControl(current_control, st) ==
    IF st.control # current_control THEN st
    ELSE IF current_control \in DOMAIN NODE_TRANSITIONS
    THEN [st EXCEPT !.control = NODE_TRANSITIONS[current_control]]
    ELSE [st EXCEPT !.control = "completed"]

\* `stop_controls or ORCHESTRATOR_WAIT_STATES`: None and the empty set both
\* give the default.
ResolveStop(stop_controls) ==
    IF stop_controls = <<>> \/ stop_controls = <<{}>>
    THEN ORCHESTRATOR_WAIT_STATES
    ELSE stop_controls[1]

StopArgs ==
    {<<>>, <<{}>>, <<{"completed", "failed"}>>, <<{"phase2_synthesis", "failed"}>>}

\* The control values a stored Run State may hold when a caller hands it to
\* the orchestrator.
ControlValues ==
    NodeRegistry \cup {None, "completed", "failed", "await_change_instruction"}

OrchIdle == orch.pc \in {"idle", "returned", "raised"}

BeginOrch(caller, st, stop_controls) ==
    /\ OrchIdle
    /\ state' = st
    /\ orch' = [pc |-> "running", caller |-> caller,
                stop |-> ResolveStop(stop_controls), start |-> st.control,
                executed |-> <<>>, outcomes |-> <<>>, left |-> <<>>, llm |-> TRUE]
    /\ events' = <<>>
    /\ UNCHANGED <<now, lockcall, sel, p3, hum, vfs, rg, toolcall>>

\* orchestrate(state, stop_controls) called on the state as it is.
OrchestrateCall(stop_controls) ==
    BeginOrch("orchestrate", state, stop_controls)

\* The analyze route: control is set to phase1_toc_review, then orchestrate.
AnalyzeCall ==
    BeginOrch("analyze", [state EXCEPT !.control = "phase1_toc_review"], <<>>)

\* run_phase1 up to its call of orchestrate, on a freshly initialised state.
RunPhase1Call ==
    BeginOrch("run_phase1",
              [NewState EXCEPT !.phase1_status = "running",
                               !.control = "phase0_ingestion"],
              <<{"completed", "failed"}>>)

\* run_phase2 up to its call of orchestrate.
RunPhase2Call ==
    BeginOrch("run_phase2",
              [state EXCEPT !.phase2_status = "running",
                            !.control = "phase2_holistic_checks"],
              <<{"completed", "failed"}>>)

\* What the caller does with the state once orchestrate has returned.
CallerEpilogue(caller, st) ==
    CASE caller = "run_phase1" ->
            [st EXCEPT !.phase1_status =
                 IF st.control = "completed" THEN "success" ELSE "failed"]
      [] caller = "run_phase2" ->
            [st EXCEPT !.phase2_status =
                 IF st.phase2_status # "failed" THEN "success" ELSE @]
      [] OTHER -> st

\* The loop of orchestrate leaves through one of its two breaks.
OrchestrateReturn ==
    /\ orch.pc = "running"
    /\ \/ state.control = None
       \/ state.control \in orch.stop
       \/ state.control \notin NodeRegistry
    /\ state' = CallerEpilogue(orch.caller, state)
    /\ orch' = [orch EXCEPT !.pc = "returned"]
    /\ UNCHANGED <<now, lockcall, events, sel, p3, hum, vfs, rg, toolcall>>

\* One iteration of the loop of orchestrate that runs a handler.
OrchestrateStepIgnoringStop(outcome) ==
    /\ orch.pc = "running"
    /\ state.control # None
    /\ state.control \in NodeRegistry
    /\ outcome.kind = "raise" => Len(state.errors) < MaxErrors
    /\ LET control == state.control
           r == RunNode(control, state, outcome)
       IN /\ events' = events \o r.evs
          /\ orch' = [orch EXCEPT
                        !.executed = Append(@, control),
                        !.outcomes = Append(@, outcome.kind),
                        !.left = Append(@, r.st.control),
                        !.pc = IF r.exc = NoExc THEN "running" ELSE "raised"]
          /\ state' = IF r.exc = NoExc THEN AdvanceControl(control, r.st) ELSE r.st
    /\ UNCHANGED <<now, lockcall, sel, p3, hum, vfs, rg, toolcall>>

OrchestrateStepRunsUnregistered(outcome) ==
    /\ orch.pc = "running"
    /\ state.control # None
    /\ state.control \notin orch.stop
    /\ outcome.kind = "raise" => Len(state.errors) < MaxErrors
    /\ LET control == state.control
           r == RunNode(control, state, outcome)
       IN /\ events' = events \o r.evs
          /\ orch' = [orch EXCEPT
                        !.executed = Append(@, control),
                        !.outcomes = Append(@, outcome.kind),
                        !.left = Append(@, r.st.control),
                        !.pc = IF r.exc = NoExc THEN "running" ELSE "raised"]
          /\ state' = IF r.exc = NoExc THEN AdvanceControl(control, r.st) ELSE r.st
    /\ UNCHANGED <<now, lockcall, sel, p3, hum, vfs, rg, toolcall>>

OrchestrateStep(outcome) ==
    /\ orch.pc = "running"
    /\ state.control # None
    /\ state.control \notin orch.stop
    /\ state.control \in NodeRegistry
    /\ outcome.kind = "raise" => Len(state.errors) < MaxErrors
    /\ LET control == state.control
           r == RunNode(control, state, outcome)
       IN /\ events' = events \o r.evs
          /\ orch' = [orch EXCEPT
                        !.executed = Append(@, control),
                        !.outcomes = Append(@, outcome.kind),
                        !.left = Append(@, r.st.control),
                        !.pc = IF r.exc = NoExc THEN "running" ELSE "raised"]
          /\ state' = IF r.exc = NoExc THEN AdvanceControl(control, r.st) ELSE r.st
    /\ UNCHANGED <<now, lockcall, sel, p3, hum, vfs, rg, toolcall>>

Init ==
    /\ \E c \in ControlValues : state = [NewState EXCEPT !.control = c]
    /\ now = 1
    /\ lockcall = NoCall
    /\ orch = NoOrch
    /\ events = <<>>
    /\ sel = NoSel
    /\ p3 = NoPhase3
    /\ hum = NoHum
    /\ vfs = NoVfs
    /\ rg = NoRg
    /\ toolcall = NoTool

Next ==
    \/ \E stop \in StopArgs : OrchestrateCall(stop)
    \/ AnalyzeCall
    \/ RunPhase1Call
    \/ RunPhase2Call
    \/ \E o \in HandlerOutcomes : OrchestrateStep(o)
    \/ OrchestrateReturn

Spec == Init /\ [][Next]_vars

(***************************************************************************)
(* Properties of the orchestrator (checked under Spec)                     *)
(***************************************************************************)

\* The phase-transition table as the design states it.
TableNext(node) ==
    CASE node = "phase0_ingestion" -> "phase1_toc_review"
      [] node = "phase1_toc_review" -> "phase2_holistic_checks"
      [] node = "phase2_holistic_checks" -> "phase2_synthesis"
      [] node = "phase2_synthesis" -> "completed"
      [] OTHER -> "completed"

\* The nodes run_phase3 runs through the wrapper; the table has no entry for them.
NodesWithoutTransition == {"apply_changes", "verify_changes"}

\* An iteration of orchestrate ran a handler, which returned without setting control.
HandlerSucceededStep ==
    /\ orch.pc = "running"
    /\ Len(orch'.executed) = Len(orch.executed) + 1
    /\ orch'.outcomes[Len(orch'.outcomes)] = "ok"

\* C3: after a handler run by orchestrate succeeds without changing control,
\* control is the transition table's next value for that node; for a node
\* with no table entry the advance gives completed.
C3_AdvanceFollowsTable ==
    /\ [][HandlerSucceededStep => state'.control = TableNext(state.control)]_vars
    /\ [](\A n \in NodesWithoutTransition :
              AdvanceControl(n, [state EXCEPT !.control = n]).control = "completed")

\* C3 witness: phase0_ingestion has just succeeded and control is phase1_toc_review.
C3_Witness ==
    /\ orch.executed = <<"phase0_ingestion">>
    /\ orch.outcomes = <<"ok">>
    /\ state.control = "phase1_toc_review"
    /\ state.last_node = "phase0_ingestion"

PhaseOrder ==
    <<"phase0_ingestion", "phase1_toc_review", "phase2_holistic_checks",
      "phase2_synthesis">>

IsPrefix(s, t) == Len(s) <= Len(t) /\ \A i \in 1..Len(s) : s[i] = t[i]

\* The call started at phase0_ingestion with the default stop controls and
\* every handler run so far returned without setting control.
CleanRunFromIngestion ==
    /\ orch.pc # "idle"
    /\ orch.start = "phase0_ingestion"
    /\ orch.stop = {"completed", "failed"}
    /\ \A i \in 1..Len(orch.outcomes) : orch.outcomes[i] = "ok"

\* C4: from control = phase0_ingestion with every handler succeeding and none
\* changing control, the handlers run once each in the order ingestion, TOC
\* review, holistic checks, synthesis (each announced by its node_started and
\* node_completed events), and the call ends with control = completed.
C4_PhasesRunInOrder ==
    CleanRunFromIngestion =>
        /\ IsPrefix(orch.executed, PhaseOrder)
        /\ Len(events) = 2 * Len(orch.executed)
        /\ \A i \in 1..Len(orch.executed) :
               /\ events[2 * i - 1] = Event("node_started", orch.executed[i], None)
               /\ events[2 * i] = Event("node_completed", orch.executed[i], "success")
        /\ orch.pc # "raised"
        /\ orch.executed = PhaseOrder <=> state.control = "completed"
        /\ orch.pc = "returned" =>
               orch.executed = PhaseOrder /\ state.control = "completed"

\* C4 witness: such a call has returned after running the four handlers.
C4_Witness ==
    /\ CleanRunFromIngestion
    /\ orch.pc = "returned"
    /\ orch.executed = PhaseOrder
    /\ state.control = "completed"

\* C20: orchestrate called with control absent or among the stop controls
\* returns at once: the call and the step after it, which is its return,
\* run no handler, emit no event and leave the run unchanged.
C20_StopControlReturnsAtOnce ==
    [][ ( /\ orch'.caller = "orchestrate"
          /\ orch'.pc # "idle"
          /\ orch'.start = None \/ orch'.start \in orch'.stop )
        => /\ state' = state
           /\ events' = <<>>
           /\ orch'.executed = <<>>
           /\ orch'.pc \in {"running", "returned"} ]_vars

\* C20 witness: orchestrate has returned from a call made with
\* phase2_synthesis as control and among the stop controls.
C20_Witness ==
    /\ orch.caller = "orchestrate"
    /\ orch.pc = "returned"
    /\ orch.start = "phase2_synthesis"
    /\ orch.stop = {"phase2_synthesis", "failed"}
    /\ orch.executed = <<>>
    /\ events = <<>>
    /\ state.control = "phase2_synthesis"

\* The loop of orchestrate is at its test with a control that is present,
\* is no stop control and names no registered handler.
AtUnregisteredControl ==
    /\ orch.pc = "running"
    /\ state.control # None
    /\ state.control \notin orch.stop
    /\ state.control \notin NodeRegistry

\* C21: when control names no registered handler, orchestrate stops
\* fail-soft: its next step is its normal return, no handler runs, no event
\* is emitted, control, errors and last_node stay as they are, and a direct
\* call of orchestrate hands the whole state back unchanged.
C21_UnregisteredControlStopsSoftly ==
    [][ AtUnregisteredControl
        => /\ orch'.pc = "returned"
           /\ orch'.executed = orch.executed
           /\ events' = events
           /\ state'.control = state.control
           /\ state'.errors = state.errors
           /\ state'.last_node = state.last_node
           /\ orch.caller \in {"orchestrate", "analyze"} => state' = state ]_vars

\* C21 witness: orchestrate has returned from a call made with control =
\* await_change_instruction, having run nothing.
C21_Witness ==
    /\ orch.caller = "orchestrate"
    /\ orch.pc = "returned"
    /\ orch.start = "await_change_instruction"
    /\ orch.executed = <<>>
    /\ events = <<>>
    /\ state = [NewState EXCEPT !.control = "await_change_instruction"]

\* An iteration of orchestrate ran a handler, which returned.
HandlerReturnedStep ==
    /\ orch.pc = "running"
    /\ Len(orch'.executed) = Len(orch.executed) + 1
    /\ orch'.pc = "running"

\* C22: when a handler has changed control, orchestrate keeps the handler's
\* value and does not apply the transition table for that step; the table is
\* applied exactly when control after the handler equals the control the
\* handler was dispatched on. The next iteration dispatches on the control
\* it finds, and runs nothing when that is a stop control or unregistered.
C22_HandlerControlPreemptsTable ==
    /\ [][HandlerReturnedStep =>
             LET dispatched == state.control
                 after == orch'.left[Len(orch'.left)]
             IN /\ orch'.executed[Len(orch'.executed)] = dispatched
                /\ after # dispatched => state'.control = after
                /\ after = dispatched => state'.control = TableNext(dispatched)]_vars
    /\ [][(orch.pc = "running"
            /\ (state.control \in orch.stop \/ state.control \notin NodeRegistry))
           => orch'.executed = orch.executed /\ orch'.pc = "returned"]_vars

\* C22 witness: the TOC review handler set control to phase2_synthesis, the
\* table's phase2_holistic_checks was not applied, and the next iteration
\* ran the synthesis handler.
C22_Witness ==
    /\ orch.start = "phase1_toc_review"
    /\ orch.executed = <<"phase1_toc_review", "phase2_synthesis">>
    /\ orch.left = <<"phase2_synthesis", "phase2_synthesis">>
    /\ orch.outcomes = <<"goto", "ok">>
    /\ state.control = "completed"

\* An iteration of orchestrate ran a handler, which raised.
HandlerRaisedStep ==
    /\ orch.pc = "running"
    /\ orch'.pc = "raised"

\* C23: when a handler raises, the run wrapper appends exactly one error
\* naming the node to state.errors, emits that node's node_started event and
\* then exactly one node_completed event with status failed, and the
\* exception leaves orchestrate; control is not advanced, last_node is not
\* set, and the call runs no later handler.
C23_RaisingHandlerIsRecordedAndPropagated ==
    /\ [][HandlerRaisedStep =>
             LET node == state.control
             IN /\ state' = [state EXCEPT
                                !.errors = Append(@, ErrorEntry(node, "failed"))]
                /\ events' = events \o <<Event("node_started", node, None),
                                          Event("node_completed", node, "failed")>>
                /\ orch'.executed = Append(orch.executed, node)]_vars
    /\ [][orch.pc = "raised" => orch'.pc = "running" /\ orch'.executed = <<>>]_vars

\* C23 witness: ingestion succeeded, then the TOC review handler raised.
C23_Witness ==
    /\ orch.pc = "raised"
    /\ orch.executed = <<"phase0_ingestion", "phase1_toc_review">>
    /\ orch.outcomes = <<"ok", "raise">>
    /\ state.control = "phase1_toc_review"
    /\ state.last_node = "phase0_ingestion"
    /\ state.errors = <<ErrorEntry("phase1_toc_review", "failed")>>
    /\ events = <<Event("node_started", "phase0_ingestion", None),
                  Event("node_completed", "phase0_ingestion", "success"),
                  Event("node_started", "phase1_toc_review", None),
                  Event("node_completed", "phase1_toc_review", "failed")>>

\* C24: when a node handler has raised during run_phase1 or run_phase2, the
\* phase run ends with the phase's status set to failed, and no phase run
\* that has ended leaves its status at running.
C24_RaisedPhaseRunIsMarkedFailed ==
    /\ (orch.pc = "raised" /\ orch.caller = "run_phase1")
           => state.phase1_status = "failed"
    /\ (orch.pc = "raised" /\ orch.caller = "run_phase2")
           => state.phase2_status = "failed"
    /\ (orch.pc \in {"raised", "returned"} /\ orch.caller = "run_phase1")
           => state.phase1_status # "running"
    /\ (orch.pc \in {"raised", "returned"} /\ orch.caller = "run_phase2")
           => state.phase2_status # "running"

(***************************************************************************)
(* Change engine: selection                                                *)
(***************************************************************************)

\* Largest number of suggested changes on a run.
MaxChanges == 2

\* The ids of the suggested changes, by position in the list.
ChangeIdAt == <<"c1", "c2", "c3", "c4">>

ChangeTypes == {"grammar", "missing_content"}

Severities == {"low", "high"}

\* original_text values: empty, whitespace only, and a real anchor.
OriginalTexts == {<<>>, <<" ">>, <<"x">>}

ChangeVariants ==
    [type : ChangeTypes, original_text : OriginalTexts, severity : Severities]

\* Every suggested_changes list of n changes.
ChangeListsOfLen(n) ==
    { [i \in 1..n |-> [id |-> ChangeIdAt[i], type |-> f[i].type,
                       original_text |-> f[i].original_text,
                       severity |-> f[i].severity]] :
          f \in [1..n -> ChangeVariants] }

ChangeLists == UNION { ChangeListsOfLen(n) : n \in 0..MaxChanges }

\* The ids of a list of changes.
IdsOf(changes) == {changes[i].id : i \in DOMAIN changes}

IsSpace(ch) == ch \in {" ", "\t", "\n"}

\* str.strip(): drop leading and trailing whitespace.
RECURSIVE StripLeft(_)
StripLeft(t) ==
    IF t # <<>> /\ IsSpace(Head(t)) THEN StripLeft(Tail(t)) ELSE t

RECURSIVE StripRight(_)
StripRight(t) ==
    IF t # <<>> /\ IsSpace(t[Len(t)])
    THEN StripRight(SubSeq(t, 1, Len(t) - 1))
    ELSE t

Strip(t) == StripRight(StripLeft(t))

\* str.lower() on the severity filters a caller passes.
Lower(s) ==
    CASE s = "HIGH" -> "high"
      [] s = "High" -> "high"
      [] s = "LOW" -> "low"
      [] OTHER -> s

\* The test of the skip branch: missing_content with no original text anchor.
IsSkippedNoStrip(change) ==
    change.type = "missing_content" /\ change.original_text = <<>>

IsSkipped(change) ==
    change.type = "missing_content" /\ Strip(change.original_text) = <<>>

ApplicableKeepsAnchorless(suggestions) == suggestions

Applicable(suggestions) ==
    SelectSeq(suggestions, LAMBDA c : ~IsSkipped(c))

SkippedEntries(suggestions) ==
    LET sk == SelectSeq(suggestions, IsSkipped)
    IN [i \in 1..Len(sk) |->
            [change |-> sk[i],
             reason |-> "missing_content requires manual insertion"]]

\* The branch taken when a plan is supplied and no explicit filter is.
SelectByPlanAllUsesIds(applicable, plan) ==
    IF plan.change_ids_to_apply # {}
    THEN [selected |-> SelectSeq(applicable,
                          LAMBDA c : c.id \in plan.change_ids_to_apply),
          warnings |-> {}]
    ELSE [selected |-> applicable, warnings |-> {"plan_no_ids"}]

SelectByPlan(applicable, plan) ==
    IF plan.apply_mode = "all"
    THEN [selected |-> applicable, warnings |-> {}]
    ELSE IF plan.change_ids_to_apply # {}
    THEN LET selected_ids == plan.change_ids_to_apply
             missing_ids ==
                 {cid \in plan.change_ids_to_apply : cid \notin selected_ids}
         IN [selected |-> SelectSeq(applicable, LAMBDA c : c.id \in selected_ids),
             warnings |-> IF missing_ids # {}
                          THEN {"plan_unavailable_ids"} ELSE {}]
    ELSE [selected |-> applicable, warnings |-> {"plan_no_ids"}]

\* _select_changes_for_application: the state with skipped_changes stored,
\* the selected changes and the warnings logged.
SelectChangesForApplication(st, change_ids, severity_filter, plan) ==
    LET suggestions == st.suggested_changes
        applicable == Applicable(suggestions)
        st1 == [st EXCEPT !.skipped_changes = SkippedEntries(suggestions)]
    IN IF change_ids # <<>> /\ change_ids[1] # {}
       THEN [st |-> st1,
             selected |-> SelectSeq(applicable, LAMBDA c : c.id \in change_ids[1]),
             warnings |-> {}]
       ELSE IF severity_filter # None /\ severity_filter # ""
       THEN [st |-> st1,
             selected |-> SelectSeq(applicable,
                             LAMBDA c : c.severity = Lower(severity_filter)),
             warnings |-> {}]
       ELSE IF plan # <<>>
       THEN LET r == SelectByPlan(applicable, plan[1])
            IN [st |-> st1, selected |-> r.selected, warnings |-> r.warnings]
       ELSE [st |-> st1, selected |-> applicable, warnings |-> {}]

\* The arguments explored: None, the empty list, ids of changes and an id
\* ("zz") that names no change.
ChangeIdArgs == {<<>>, <<{}>>, <<{"c1"}>>, <<{"c2", "zz"}>>, <<{"c1", "c2"}>>}

SeverityArgs == {None, "", "HIGH", "low"}

PlanArgs ==
    {<<>>} \cup
    { <<[apply_mode |-> m, change_ids_to_apply |-> ids]>> :
          m \in {"all", "by_ids"}, ids \in {{}, {"c1"}, {"c2", "zz"}} }

\* One call on the run drawn by InitSelect.  The function reads only
\* suggested_changes and overwrites skipped_changes, so a second call from the
\* state a first one left behaves as from the initial state.
SelectCall(change_ids, severity_filter, plan) ==
    LET r == SelectChangesForApplication(state, change_ids, severity_filter, plan)
    IN /\ sel.op = "none"
       /\ state' = r.st
       /\ sel' = [called |-> TRUE, op |-> "select", change_ids |-> change_ids,
                  severity_filter |-> severity_filter, plan |-> plan,
                  requested |-> {},
                  selected |-> r.selected, warnings |-> r.warnings]
       /\ UNCHANGED <<now, lockcall, orch, events, p3, hum, vfs, rg, toolcall>>

\* What the change_selection_intent prompt can answer: nothing, or a reply
\* with an apply_mode (possibly absent) and the ids it asks for.
IntentReplies ==
    {<<>>} \cup
    { <<[apply_mode |-> m, change_ids_to_apply |-> ids]>> :
          m \in {None, "all", "by_ids"},
          ids \in {{}, {"c1"}, {"c2", "zz"}, {"zz"}} }

\* _node_change_selection_intent_llm: the state with the plan stored, the
\* plan returned (<<>> for None) and the warnings logged.
ChangeSelectionIntentLlm(st, reply) ==
    IF st.suggested_changes = <<>>
    THEN [st |-> st, plan |-> <<>>, warnings |-> {"no_suggested_changes"}]
    ELSE IF reply = <<>>
    THEN [st |-> st, plan |-> <<>>, warnings |-> {}]
    ELSE LET apply_mode == IF reply[1].apply_mode = None THEN "by_ids"
                           ELSE reply[1].apply_mode
             requested_ids == reply[1].change_ids_to_apply
             valid_ids == IdsOf(st.suggested_changes)
             filtered_ids == IF apply_mode = "all" THEN valid_ids
                             ELSE requested_ids \cap valid_ids
             plan == <<[apply_mode |-> apply_mode,
                        change_ids_to_apply |-> filtered_ids]>>
         IN [st |-> [st EXCEPT !.change_selection_plan = plan],
             plan |-> plan,
             warnings |-> IF apply_mode # "all" /\ requested_ids # {}
                             /\ filtered_ids = {}
                          THEN {"ids_do_not_exist"} ELSE {}]

\* interpret_change_instruction on the run drawn by InitSelect.
InterpretCall(reply) ==
    LET r == ChangeSelectionIntentLlm(state, reply)
    IN /\ sel.op = "none"
       /\ state' = r.st
       /\ sel' = [NoSel EXCEPT !.op = "interpret", !.plan = r.plan,
                               !.requested = IF reply = <<>> THEN {}
                                             ELSE reply[1].change_ids_to_apply,
                               !.warnings = r.warnings]
       /\ UNCHANGED <<now, lockcall, orch, events, p3, hum, vfs, rg, toolcall>>

InitSelect ==
    /\ \E l \in ChangeLists : state = [NewState EXCEPT !.suggested_changes = l]
    /\ now = 1
    /\ lockcall = NoCall
    /\ orch = NoOrch
    /\ events = <<>>
    /\ sel = NoSel
    /\ p3 = NoPhase3
    /\ hum = NoHum
    /\ vfs = NoVfs
    /\ rg = NoRg
    /\ toolcall = NoTool

NextSelect ==
    \/ \E ids \in ChangeIdArgs, sev \in SeverityArgs, plan \in PlanArgs :
           SelectCall(ids, sev, plan)
    \/ \E reply \in IntentReplies : InterpretCall(reply)

SpecSelect == InitSelect /\ [][NextSelect]_vars

(***************************************************************************)
(* Properties of selection (checked under SpecSelect)                      *)
(***************************************************************************)

\* A text with no character other than whitespace (the empty text included).
IsBlank(t) == \A k \in 1..Len(t) : IsSpace(t[k])

\* The positions of the missing_content changes whose original_text is "".
EmptyAnchorPositions ==
    {i \in 1..Len(state.suggested_changes) :
        /\ state.suggested_changes[i].type = "missing_content"
        /\ state.suggested_changes[i].original_text = <<>>}

\* The positions of the missing_content changes whose original_text is blank.
BlankAnchorPositions ==
    {i \in 1..Len(state.suggested_changes) :
        /\ state.suggested_changes[i].type = "missing_content"
        /\ IsBlank(state.suggested_changes[i].original_text)}

\* The suggested changes, in order, without those at the positions in `out`.
SuggestedWithout(out) ==
    LET RECURSIVE Keep(_)
        Keep(i) ==
            IF i > Len(state.suggested_changes) THEN <<>>
            ELSE (IF i \in out THEN <<>> ELSE <<state.suggested_changes[i]>>)
                 \o Keep(i + 1)
    IN Keep(1)

OnlyIds(changes, ids) == SelectSeq(changes, LAMBDA c : c.id \in ids)

\* C5 as stated: for every suggested_changes list and every combination of
\* arguments, the selection returns no missing_content change whose
\* original_text is the empty string, and len(skipped_changes) equals the
\* number of such changes.
C5_SkippedCountsEmptyAnchors ==
    sel.called =>
        /\ \A i \in 1..Len(sel.selected) :
               ~(/\ sel.selected[i].type = "missing_content"
                 /\ sel.selected[i].original_text = <<>>)
        /\ Len(state.skipped_changes) = Cardinality(EmptyAnchorPositions)

\* C5 amended: for every suggested_changes list and every combination of
\* arguments, the selection returns no missing_content change whose
\* original_text is empty or whitespace only, and skipped_changes holds
\* exactly those changes, in order, so its length is their number.
C5_SkippedCountsBlankAnchors ==
    sel.called =>
        /\ \A i \in 1..Len(sel.selected) :
               ~(/\ sel.selected[i].type = "missing_content"
                 /\ IsBlank(sel.selected[i].original_text))
        /\ Len(state.skipped_changes) = Cardinality(BlankAnchorPositions)
        /\ \A i \in 1..Len(state.skipped_changes) :
               /\ state.skipped_changes[i].change.type = "missing_content"
               /\ IsBlank(state.skipped_changes[i].change.original_text)

\* C5 witness: a call with an explicit filter on a list holding a
\* whitespace-anchored missing_content change, which is skipped while another
\* change is selected.
C5_Witness ==
    /\ sel.called
    /\ sel.change_ids # <<>>
    /\ sel.plan # <<>>
    /\ Len(sel.selected) > 0
    /\ \E i \in 1..Len(state.skipped_changes) :
           state.skipped_changes[i].change.original_text = <<" ">>

\* C6: with a plan whose change_ids_to_apply is empty and whose apply_mode is
\* not all, and neither changeIds nor severityFilter, the selection is empty.
C6_EmptyPlanSelectsNothing ==
    ( /\ sel.called
      /\ sel.change_ids = <<>>
      /\ sel.severity_filter = None
      /\ sel.plan # <<>>
      /\ sel.plan[1].apply_mode # "all"
      /\ sel.plan[1].change_ids_to_apply = {} )
    => sel.selected = <<>>

\* C7 as stated: with a plan of apply_mode all, and neither changeIds nor
\* severityFilter, the selection is every suggested change except the
\* missing_content changes whose original_text is the empty string.
C7_ApplyAllSelectsNonEmptyAnchors ==
    ( /\ sel.called
      /\ sel.change_ids = <<>>
      /\ sel.severity_filter = None
      /\ sel.plan # <<>>
      /\ sel.plan[1].apply_mode = "all" )
    => sel.selected = SuggestedWithout(EmptyAnchorPositions)

\* C7 amended: with a plan of apply_mode all, and neither changeIds nor
\* severityFilter, the selection is every suggested change except the
\* missing_content changes whose original_text is empty or whitespace only,
\* whatever ids the plan lists.
C7_ApplyAllSelectsApplicable ==
    ( /\ sel.called
      /\ sel.change_ids = <<>>
      /\ sel.severity_filter = None
      /\ sel.plan # <<>>
      /\ sel.plan[1].apply_mode = "all" )
    => sel.selected = SuggestedWithout(BlankAnchorPositions)

\* C7 witness: apply_mode all with a plan that lists only c1, on a run where
\* c2 is applicable too and is selected.
C7_Witness ==
    /\ sel.called
    /\ sel.change_ids = <<>>
    /\ sel.severity_filter = None
    /\ sel.plan # <<>>
    /\ sel.plan[1].apply_mode = "all"
    /\ sel.plan[1].change_ids_to_apply = {"c1"}
    /\ \E i \in 1..Len(sel.selected) : sel.selected[i].id = "c2"
    /\ Len(state.skipped_changes) > 0

\* C8: first match wins.  A supplied changeIds decides alone; else a supplied
\* severityFilter decides alone; else a supplied plan decides (apply_mode all
\* gives the applicable changes, any other mode those the plan lists); only
\* when none is supplied are all applicable changes selected.  An empty id
\* list and an empty severity string are read here as not supplied, the
\* reading most favourable to the code.
C8_FirstMatchWins ==
    sel.called =>
        LET applicable == SuggestedWithout(BlankAnchorPositions)
        IN IF sel.change_ids # <<>> /\ sel.change_ids # <<{}>>
           THEN sel.selected = OnlyIds(applicable, sel.change_ids[1])
           ELSE IF sel.severity_filter # None /\ sel.severity_filter # ""
           THEN sel.selected =
                    SelectSeq(applicable,
                              LAMBDA c : c.severity = Lower(sel.severity_filter))
           ELSE IF sel.plan # <<>>
           THEN sel.selected =
                    (IF sel.plan[1].apply_mode = "all" THEN applicable
                     ELSE OnlyIds(applicable, sel.plan[1].change_ids_to_apply))
           ELSE sel.selected = applicable

\* The ids of a set that name no suggested change of the run.
UnknownIds(ids) == ids \ IdsOf(state.suggested_changes)

\* C29: ids named by a change selection plan that match no suggested change
\* are dropped and never selected, and a warning is logged whenever at least
\* one id is dropped, both when the plan is consumed by the selection and
\* when it is built from the LLM's reply.
C29_DroppedPlanIdsAreWarned ==
    /\ (/\ sel.op = "select"
        /\ sel.change_ids \in {<<>>, <<{}>>}
        /\ sel.severity_filter \in {None, ""}
        /\ sel.plan # <<>>
        /\ sel.plan[1].apply_mode # "all"
        /\ UnknownIds(sel.plan[1].change_ids_to_apply) # {})
           => /\ UnknownIds(IdsOf(sel.selected)) = {}
              /\ "plan_unavailable_ids" \in sel.warnings
    /\ (sel.op = "interpret" /\ sel.plan # <<>>)
           => UnknownIds(sel.plan[1].change_ids_to_apply) = {}
    /\ (sel.op = "interpret" /\ sel.plan # <<>> /\ UnknownIds(sel.requested) # {})
           => "ids_do_not_exist" \in sel.warnings

(***************************************************************************)
(* Change engine: application (run_phase3)                                 *)
(***************************************************************************)

\* Largest doc_meta.version explored.
MaxVersion == 3

\* f"/versions/v{N}_document.md"
VersionPath(n) == <<"/versions/v", n, "_document.md">>

AppliedChangesPath == <<"/changes/applied_changes.json">>

\* _register_vfs_artifact
RegisterVfsArtifactNoDedup(st, artifact) ==
    [st EXCEPT !.vfs_artifacts = Append(@, artifact)]

RegisterVfsArtifactRefreshes(st, artifact) ==
    IF artifact.path \in {st.vfs_artifacts[i].path : i \in DOMAIN st.vfs_artifacts}
    THEN [st EXCEPT !.vfs_artifacts =
             [i \in DOMAIN @ |-> IF @[i].path = artifact.path THEN artifact ELSE @[i]]]
    ELSE [st EXCEPT !.vfs_artifacts = Append(@, artifact)]

RegisterVfsArtifact(st, artifact) ==
    IF artifact.path \in {st.vfs_artifacts[i].path : i \in DOMAIN st.vfs_artifacts}
    THEN st
    ELSE [st EXCEPT !.vfs_artifacts = Append(@, artifact)]

\* _sync_vfs_artifacts: register each entry, stamped with the current time,
\* and emit a vfs_file_updated event for it.
RECURSIVE SyncVfsArtifacts(_, _, _)
SyncVfsArtifacts(st, entries, t) ==
    IF entries = <<>> THEN [st |-> st, evs |-> <<>>]
    ELSE LET e == Head(entries)
             st1 == RegisterVfsArtifact(st,
                        [path |-> e.path, label |-> e.label, last_updated |-> t])
             rest == SyncVfsArtifacts(st1, Tail(entries), t)
         IN [st |-> rest.st,
             evs |-> <<Event("vfs_file_updated", e.path, None)>> \o rest.evs]

\* The document texts explored.
DocTexts == {"", "d0", "d1"}

\* What the apply capability (_call_tool("apply_changes_deterministic")) can
\* answer for the changes it is given: the ids it applied, those it failed
\* on, and the new text; or it raises.  The stand-in of _call_tool answers
\* with nothing applied and the empty text.
ApplyResults(selected) ==
    { [raises |-> FALSE, applied_change_ids |-> a,
       failed_changes |-> IdsOf(selected) \ a, new_raw_markdown |-> txt] :
          a \in SUBSET IdsOf(selected), txt \in {"", "d1"} }
    \cup {[raises |-> TRUE, applied_change_ids |-> {}, failed_changes |-> {},
           new_raw_markdown |-> ""]}

\* _apply_changes_core, once the capability has answered with `result`.
ApplyChangesCoreVersionNotBumped(st, selected_changes, original_text, result, t) ==
    IF selected_changes = <<>>
    THEN [st |-> [st EXCEPT !.phase3_status = "failed"], evs |-> <<>>]
    ELSE
    LET snapshot == IF original_text # "" THEN original_text ELSE st.raw_text
        st1 == [st EXCEPT !.applied_change_ids = result.applied_change_ids,
                          !.failed_changes = result.failed_changes,
                          !.new_raw_text = result.new_raw_markdown]
    IN IF result.applied_change_ids # {}
       THEN SyncVfsArtifacts(
                [st1 EXCEPT !.raw_text = result.new_raw_markdown,
                            !.phase3_status = "success",
                            !.pre_apply_text = <<snapshot>>],
                << [path |-> VersionPath(st.version), label |-> "Improved Document"],
                   [path |-> AppliedChangesPath, label |-> "Applied Changes"] >>,
                t)
       ELSE [st |-> [st1 EXCEPT !.phase3_status = "failed"], evs |-> <<>>]

ApplyChangesCoreZeroAppliedSucceeds(st, selected_changes, original_text, result, t) ==
    IF selected_changes = <<>>
    THEN [st |-> [st EXCEPT !.phase3_status = "failed"], evs |-> <<>>]
    ELSE [st |-> [st EXCEPT !.applied_change_ids = result.applied_change_ids,
                            !.failed_changes = result.failed_changes,
                            !.new_raw_text = result.new_raw_markdown,
                            !.phase3_status = "success"],
          evs |-> <<>>]

ApplyChangesCore(st, selected_changes, original_text, result, t) ==
    IF selected_changes = <<>>
    THEN [st |-> [st EXCEPT !.phase3_status = "failed"], evs |-> <<>>]
    ELSE
    LET snapshot == IF original_text # "" THEN original_text ELSE st.raw_text
        st1 == [st EXCEPT !.applied_change_ids = result.applied_change_ids,
                          !.failed_changes = result.failed_changes,
                          !.new_raw_text = result.new_raw_markdown]
    IN IF result.applied_change_ids # {}
       THEN SyncVfsArtifacts(
                [st1 EXCEPT !.raw_text = result.new_raw_markdown,
                            !.version = @ + 1,
                            !.phase3_status = "success",
                            !.pre_apply_text = <<snapshot>>],
                << [path |-> VersionPath(st.version + 1), label |-> "Improved Document"],
                   [path |-> AppliedChangesPath, label |-> "Applied Changes"] >>,
                t)
       ELSE [st |-> [st1 EXCEPT !.phase3_status = "failed"], evs |-> <<>>]

\* What the verifier prompt can answer: no issue, one issue (tagged with a
\* change id), nothing because the LLM is unavailable, or a reply the node
\* cannot read, on which it raises.
VerifierOutcomes == {"no_issues", "issue", "unavailable", "raise"}

\* _node_verify_changes_orchestrator with _node_apply_changes_verifier_llm
VerifyChangesKeepsSnapshot(st, outcome) ==
    [st |-> IF outcome = "issue"
            THEN [st EXCEPT !.errors =
                      Append(@, ErrorEntry("phase3_verification", "issue"))]
            ELSE st,
     raises |-> FALSE]

VerifyChangesStartsErrorsAfresh(st, outcome) ==
    [st |-> [st EXCEPT !.pre_apply_text = <<>>,
                       !.errors = IF outcome = "issue"
                                  THEN <<ErrorEntry("phase3_verification", "issue")>>
                                  ELSE <<>>],
     raises |-> FALSE]

VerifyChanges(st, outcome) ==
    LET snapshot == st.pre_apply_text
        popped == [st EXCEPT !.pre_apply_text = <<>>]
        asks == /\ snapshot # <<>>
                /\ snapshot[1] # ""
                /\ st.applied_change_ids # {}
                /\ \E i \in DOMAIN st.suggested_changes :
                       st.suggested_changes[i].id \in st.applied_change_ids
    IN IF ~asks THEN [st |-> popped, raises |-> FALSE]
       ELSE CASE outcome = "issue" ->
                   [st |-> [popped EXCEPT !.errors =
                               Append(@, ErrorEntry("phase3_verification", "issue"))],
                    raises |-> FALSE]
              [] outcome = "unavailable" ->
                   [st |-> [popped EXCEPT !.errors =
                               Append(@, ErrorEntry("phase3_apply_verifier.md", "skipped"))],
                    raises |-> FALSE]
              [] outcome = "raise" -> [st |-> popped, raises |-> TRUE]
              [] OTHER -> [st |-> popped, raises |-> FALSE]

Phase3Idle == p3.pc \in {"idle", "done", "raised"}

\* run_phase3 from its start to the end of the apply_changes node: selection,
\* then (when something is selected) the node and the control advance.
\* pc tells where the call stands: "done" (returned with nothing selected),
\* "applied" (the node ran) or "raised" (the node raised).
Phase3ApplyPart(st, change_ids, severity_filter, result, t) ==
    LET st0 == [st EXCEPT !.phase3_status = "running"]
        s == SelectChangesForApplication(st0, change_ids, severity_filter,
                                         st0.change_selection_plan)
    IN IF s.selected = <<>>
       THEN [st |-> [s.st EXCEPT
                       !.phase3_status = "failed",
                       !.errors = Append(@, ErrorEntry("phase3", "no changes selected"))],
             pc |-> "done", evs |-> <<>>, selected |-> <<>>]
       ELSE LET original_text == s.st.raw_text
                st1 == [s.st EXCEPT !.control = "apply_changes"]
                core == IF result.raises THEN [st |-> st1, evs |-> <<>>]
                        ELSE ApplyChangesCore(st1, s.selected, original_text,
                                              result, t)
                r == WrapNode("apply_changes", result.raises, core.st, core.evs)
            IN [st |-> IF r.exc = NoExc THEN AdvanceControl("apply_changes", r.st)
                       ELSE r.st,
                pc |-> IF r.exc = NoExc THEN "applied" ELSE "raised",
                evs |-> r.evs, selected |-> s.selected]

\* run_phase3 from the verify_changes node to its return.
Phase3VerifyPart(st, outcome) ==
    LET v == VerifyChanges(st, outcome)
        r == WrapNode("verify_changes", v.raises, v.st, <<>>)
    IN [st |-> IF r.exc = NoExc THEN AdvanceControl("verify_changes", r.st)
               ELSE r.st,
        pc |-> IF r.exc = NoExc THEN "done" ELSE "raised",
        evs |-> r.evs]

\* run_phase3 as one call.  The outcome of the first part is bound through a
\* one-element set, so that it is computed once.
RunPhase3(st, change_ids, severity_filter, result, outcome, t) ==
    CHOOSE r \in
        { IF a.pc = "applied"
          THEN [st |-> Phase3VerifyPart(a.st, outcome).st,
                pc |-> Phase3VerifyPart(a.st, outcome).pc]
          ELSE [st |-> a.st, pc |-> a.pc] :
              a \in {Phase3ApplyPart(st, change_ids, severity_filter, result, t)} } :
        TRUE

\* The capability is asked only when something is selected; `result` is then
\* one of its answers for the selected changes.
ResultFits(selected, result) ==
    IF selected = <<>>
    THEN result = [raises |-> TRUE, applied_change_ids |-> {},
                   failed_changes |-> {}, new_raw_markdown |-> ""]
    ELSE result \in ApplyResults(selected)

\* The changes run_phase3 selects on a state.
Phase3Selection(st, change_ids, severity_filter) ==
    SelectChangesForApplication([st EXCEPT !.phase3_status = "running"],
                                change_ids, severity_filter,
                                st.change_selection_plan).selected

RunPhase3Apply(change_ids, severity_filter, result) ==
    /\ Phase3Idle
    /\ state.version < MaxVersion
    /\ ResultFits(Phase3Selection(state, change_ids, severity_filter), result)
    /\ \E a \in {Phase3ApplyPart(state, change_ids, severity_filter, result, now)} :
          /\ Len(a.st.errors) <= MaxErrors
          /\ state' = a.st
          /\ events' = a.evs
          /\ p3' = IF a.pc = "applied"
                   THEN [pc |-> a.pc, change_ids |-> change_ids,
                         severity_filter |-> severity_filter,
                         selected |-> a.selected]
                   ELSE [NoPhase3 EXCEPT !.pc = a.pc]
    /\ UNCHANGED <<now, lockcall, orch, sel, hum, vfs, rg, toolcall>>

RunPhase3Verify(outcome) ==
    /\ p3.pc = "applied"
    /\ \E v \in {Phase3VerifyPart(state, outcome)} :
          /\ Len(v.st.errors) <= MaxErrors
          /\ state' = v.st
          /\ events' = events \o v.evs
          /\ p3' = [NoPhase3 EXCEPT !.pc = v.pc]
    /\ UNCHANGED <<now, lockcall, orch, sel, hum, vfs, rg, toolcall>>

\* The runs explored: no suggested change, or a grammar change c1 anchored
\* at "x" followed by a second change of any type and anchor.
ApplyChangeLists ==
    {<<>>} \cup
    {l \in ChangeListsOfLen(2) :
        /\ l[1].type = "grammar" /\ l[1].original_text = <<"x">>
        /\ l[1].severity = "low" /\ l[2].severity = "high"}

\* The arguments of run_phase3 explored.
Phase3IdArgs == {<<>>, <<{}>>, <<{"c1"}>>, <<{"c2", "zz"}>>}

Phase3SeverityArgs == {None, "HIGH"}

\* The answers the apply capability can give to the call run_phase3 makes
\* on a state: those for the changes the call selects there.
Phase3Results(st, change_ids, severity_filter) ==
    UNION { IF sl = <<>>
            THEN {[raises |-> TRUE, applied_change_ids |-> {},
                   failed_changes |-> {}, new_raw_markdown |-> ""]}
            ELSE ApplyResults(sl) :
                sl \in {Phase3Selection(st, change_ids, severity_filter)} }

\* The stored change_selection_plan values explored.
StoredPlans ==
    {<<>>} \cup
    { <<[apply_mode |-> "by_ids", change_ids_to_apply |-> ids]>> :
          ids \in {{}, {"c2", "zz"}} }

InitApply ==
    /\ \E l \in ApplyChangeLists, plan \in StoredPlans, txt \in {"", "d0"} :
           state = [NewState EXCEPT !.suggested_changes = l,
                                    !.change_selection_plan = plan,
                                    !.raw_text = txt,
                                    !.control = "completed"]
    /\ now = 1
    /\ lockcall = NoCall
    /\ orch = NoOrch
    /\ events = <<>>
    /\ sel = NoSel
    /\ p3 = NoPhase3
    /\ hum = NoHum
    /\ vfs = NoVfs
    /\ rg = NoRg
    /\ toolcall = NoTool

NextApply ==
    \/ \E ids \in Phase3IdArgs, sev \in Phase3SeverityArgs :
          \E res \in Phase3Results(state, ids, sev) : RunPhase3Apply(ids, sev, res)
    \/ \E o \in VerifierOutcomes : RunPhase3Verify(o)

SpecApply == InitApply /\ [][NextApply]_vars

(***************************************************************************)
(* Properties of application (checked under SpecApply)                     *)
(***************************************************************************)

ArtifactPaths(st) == {st.vfs_artifacts[i].path : i \in DOMAIN st.vfs_artifacts}

\* A step in which the apply_changes node ran to its end and the capability
\* reported at least one applied change.
SuccessfulApplyStep ==
    /\ Phase3Idle
    /\ p3'.pc = "applied"
    /\ state'.applied_change_ids # {}

\* C37 as stated: a run_phase3 call with an explicitly supplied empty list of
\* change ids and no severity filter selects nothing, whatever suggested
\* changes and stored plan the run holds: it hands no change to the apply
\* capability and ends with phase3_status failed, so it is never found
\* past its apply_changes node with changes selected.
C37_EmptyIdListSelectsNothing ==
    (p3.change_ids = <<{}>> /\ p3.severity_filter = None) =>
        /\ p3.selected = <<>>
        /\ p3.pc # "applied"
        /\ state.phase3_status = "failed"

\* C9: an application in which the capability reports at least one applied
\* change replaces the document text with the returned text, increases
\* doc_meta.version by exactly 1, sets the phase status to success and keeps
\* the pre-apply text as _pre_apply_text; version changes in no other step
\* and by no other amount.
C9_ApplyBumpsVersionByOne ==
    [][ /\ SuccessfulApplyStep =>
            /\ state'.raw_text = state'.new_raw_text
            /\ state'.version = state.version + 1
            /\ state'.phase3_status = "success"
            /\ state'.pre_apply_text = <<state.raw_text>>
        /\ state'.version # state.version =>
            /\ SuccessfulApplyStep
            /\ state'.version = state.version + 1 ]_vars

\* C9 witness: the first application on a run has just applied a change: the
\* text d0 became d1, the version 2, and d0 is kept as the snapshot.
C9_Witness ==
    /\ p3.pc = "applied"
    /\ state.applied_change_ids # {}
    /\ state.version = 2
    /\ state.raw_text = "d1"
    /\ state.pre_apply_text = <<"d0">>
    /\ state.phase3_status = "success"

\* C10 as stated: every application with at least one applied change adds
\* exactly two new entries to vfs_artifacts, on the first and on any later
\* successful application.
C10_ApplyAddsTwoArtifacts ==
    [][ SuccessfulApplyStep =>
            Len(state'.vfs_artifacts) = Len(state.vfs_artifacts) + 2 ]_vars

\* C10 amended: every application with at least one applied change leaves
\* /versions/v{N}_document.md (N the new version) and
\* /changes/applied_changes.json registered and the earlier entries as they
\* were; it adds two entries when /changes/applied_changes.json was not yet
\* registered (the first successful application) and exactly one, the version
\* file, when it already was (a later one).
C10_ApplyRegistersMissingArtifacts ==
    [][ SuccessfulApplyStep =>
            /\ ArtifactPaths(state') =
                   ArtifactPaths(state)
                       \cup {VersionPath(state'.version), AppliedChangesPath}
            /\ VersionPath(state'.version) \notin ArtifactPaths(state)
            /\ Len(state'.vfs_artifacts) =
                   Len(state.vfs_artifacts)
                       + (IF AppliedChangesPath \in ArtifactPaths(state)
                          THEN 1 ELSE 2)
            /\ \A i \in 1..Len(state.vfs_artifacts) :
                   state'.vfs_artifacts[i] = state.vfs_artifacts[i] ]_vars

\* C10 witness: the second successful application on a run has just ended,
\* with three artifacts registered: two version files and the applied changes.
C10_Witness ==
    /\ p3.pc = "applied"
    /\ state.applied_change_ids # {}
    /\ state.version = 3
    /\ Len(state.vfs_artifacts) = 3
    /\ ArtifactPaths(state) = {VersionPath(2), VersionPath(3), AppliedChangesPath}

\* A step in which the apply_changes node ran to its end and the capability
\* reported no applied change.
ZeroAppliedStep ==
    /\ Phase3Idle
    /\ p3'.pc = "applied"
    /\ state'.applied_change_ids = {}

\* C11: an application in which the capability reports zero applied changes
\* leaves doc_meta.version and the document text unchanged, registers no
\* artifact, and sets the phase status to failed.
C11_ZeroAppliedFails ==
    [][ ZeroAppliedStep =>
            /\ state'.version = state.version
            /\ state'.raw_text = state.raw_text
            /\ state'.vfs_artifacts = state.vfs_artifacts
            /\ state'.phase3_status = "failed" ]_vars

\* C11 witness: after an earlier successful application (version 2), an
\* application has just ended with nothing applied.
C11_Witness ==
    /\ p3.pc = "applied"
    /\ state.applied_change_ids = {}
    /\ state.failed_changes # {}
    /\ state.phase3_status = "failed"
    /\ state.version = 2
    /\ state.raw_text = "d1"

\* C12: an application with zero applied changes changes nothing of the run
\* but the phase status: applied_change_ids, failed_changes, new_raw_text,
\* the document text, the version and vfs_artifacts keep their values.
C12_ZeroAppliedMutatesNothing ==
    [][ ZeroAppliedStep =>
            /\ state'.applied_change_ids = state.applied_change_ids
            /\ state'.failed_changes = state.failed_changes
            /\ state'.new_raw_text = state.new_raw_text
            /\ state'.raw_text = state.raw_text
            /\ state'.version = state.version
            /\ state'.vfs_artifacts = state.vfs_artifacts ]_vars

\* C28: after a selection followed by an application, no id in
\* applied_change_ids belongs to a missing_content change with empty
\* original_text: no such change is handed to the apply capability, and each
\* of them is recorded in skipped_changes.
C28_AnchorlessNeverApplied ==
    p3.pc # "idle" =>
        \A i \in DOMAIN state.suggested_changes :
            LET c == state.suggested_changes[i]
            IN (c.type = "missing_content" /\ c.original_text = <<>>) =>
                  /\ c.id \notin state.applied_change_ids
                  /\ p3.pc = "applied" => c.id \notin IdsOf(p3.selected)
                  /\ \E j \in DOMAIN state.skipped_changes :
                         state.skipped_changes[j].change = c

\* C28 witness: run_phase3 has applied c1 on a run whose second change is a
\* missing_content change with empty original_text, recorded as skipped.
C28_Witness ==
    /\ p3.pc = "done"
    /\ Len(state.suggested_changes) = 2
    /\ state.suggested_changes[2].type = "missing_content"
    /\ state.suggested_changes[2].original_text = <<>>
    /\ state.applied_change_ids = {"c1"}
    /\ state.version = 2
    /\ Len(state.skipped_changes) = 1
    /\ state.skipped_changes[1].change = state.suggested_changes[2]

(***************************************************************************)
(* Artifact registry of a run (vfs_artifacts)                              *)
(***************************************************************************)

\* Most artifacts registered on the runs explored.
MaxArtifacts == 3

\* f"/original/{name}" for the name of the uploaded file.
OriginalPath(name) == <<"/original/", name>>

\* The names of the uploaded file explored; the second one makes the path of
\* the upload coincide with that of the normalised markdown.
SourceNames == {"report.pdf", "document.md"}

\* The two registrations at the end of _node_convert_to_markdown.
RegisterOriginals(st, name, t) ==
    RegisterVfsArtifact(
        RegisterVfsArtifact(st, [path |-> OriginalPath(name),
                                 label |-> "Original upload",
                                 last_updated |-> t]),
        [path |-> OriginalPath("document.md"), label |-> "Normalised Markdown",
         last_updated |-> t])

\* The entries _apply_changes_core hands to _sync_vfs_artifacts after it has
\* produced version n.
ApplyEntries(n) ==
    << [path |-> VersionPath(n), label |-> "Improved Document"],
       [path |-> AppliedChangesPath, label |-> "Applied Changes"] >>

\* The conversion node registers the upload and the normalised markdown.
ConvertRegisters(name) ==
    /\ \E st \in {RegisterOriginals(state, name, now)} :
          /\ Len(st.vfs_artifacts) <= MaxArtifacts
          /\ state' = st
    /\ UNCHANGED <<now, lockcall, orch, events, sel, p3, hum, vfs, rg, toolcall>>

\* An application that produced version n synchronises its artifacts.
ApplySyncs(n) ==
    /\ \E r \in {SyncVfsArtifacts(state, ApplyEntries(n), now)} :
          /\ Len(r.st.vfs_artifacts) <= MaxArtifacts
          /\ state' = r.st
          /\ events' = r.evs
    /\ UNCHANGED <<now, lockcall, orch, sel, p3, hum, vfs, rg, toolcall>>

InitArtifacts ==
    /\ state = NewState
    /\ now = 1
    /\ lockcall = NoCall
    /\ orch = NoOrch
    /\ events = <<>>
    /\ sel = NoSel
    /\ p3 = NoPhase3
    /\ hum = NoHum
    /\ vfs = NoVfs
    /\ rg = NoRg
    /\ toolcall = NoTool

NextArtifacts ==
    \/ \E name \in SourceNames : ConvertRegisters(name)
    \/ \E n \in 2..MaxVersion : ApplySyncs(n)
    \/ Tick

SpecArtifacts == InitArtifacts /\ [][NextArtifacts]_vars

\* The paths registered on the run.
RegisteredPaths == {state.vfs_artifacts[i].path : i \in DOMAIN state.vfs_artifacts}

\* C30: the paths in vfs_artifacts are pairwise distinct in every reachable
\* state; registering an artifact whose path is already present, whatever
\* its label and time, leaves the Run State as it is; and no step changes or
\* removes an entry already registered.
C30_ArtifactPathsUnique ==
    /\ [](\A i, j \in DOMAIN state.vfs_artifacts :
              state.vfs_artifacts[i].path = state.vfs_artifacts[j].path => i = j)
    /\ [](\A path \in RegisteredPaths :
              RegisterVfsArtifact(state, [path |-> path, label |-> "Another label",
                                          last_updated |-> now]) = state)
    /\ [][/\ Len(state'.vfs_artifacts) >= Len(state.vfs_artifacts)
          /\ \A i \in DOMAIN state.vfs_artifacts :
                 state'.vfs_artifacts[i] = state.vfs_artifacts[i]]_vars

\* C30 witness: version 2 was synchronised at time 1 and version 3 at time
\* 2; the second registration of the applied-changes file changed nothing.
C30_Witness ==
    /\ now = 2
    /\ state.vfs_artifacts =
          << [path |-> VersionPath(2), label |-> "Improved Document", last_updated |-> 1],
             [path |-> AppliedChangesPath, label |-> "Applied Changes", last_updated |-> 1],
             [path |-> VersionPath(3), label |-> "Improved Document", last_updated |-> 2] >>
    /\ events = <<Event("vfs_file_updated", VersionPath(3), None),
                  Event("vfs_file_updated", AppliedChangesPath, None)>>

(***************************************************************************)
(* LLM-driven phase handlers                                               *)
(***************************************************************************)

\* Most errors a Run State may carry when a run of the LLM handlers starts.
MaxPromptErrors == 6

\* The nodes of the registry whose handlers are LLM prompts.
LlmNodes == {"phase1_toc_review", "phase2_holistic_checks", "phase2_synthesis"}

\* The four checks of _node_phase2_holistic_checks: prompt file and result key.
HolisticChecks ==
    << [prompt |-> "phase2_check_conceptual_coverage.md", key |-> "conceptual_coverage"],
       [prompt |-> "phase2_check_compliance_governance.md", key |-> "compliance_governance"],
       [prompt |-> "phase2_check_language_clarity.md", key |-> "language_clarity"],
       [prompt |-> "phase2_check_structural_presentation.md", key |-> "structural_presentation"] >>

\* The number of prompts each handler invokes.
PromptCount(node_id) ==
    IF node_id = "phase2_holistic_checks" THEN Len(HolisticChecks) ELSE 1

\* The prompts invoked by one pass through the three handlers.
PromptsPerRun ==
    PromptCount("phase1_toc_review") + PromptCount("phase2_holistic_checks")
        + PromptCount("phase2_synthesis")

\* What one prompt invocation can meet.  With the LLM configured: a reply or
\* a failing call.  With the LLM not configured (is_llm_available() false):
\* the LLMNotAvailableError of call_llm_markdown, or, before that call is
\* reached, a missing template.
PromptOutcomes(llm) ==
    IF llm THEN {"reply", "failed"} ELSE {"unavailable", "no_template"}

RECURSIVE PromptOutcomeLists(_, _)
PromptOutcomeLists(llm, n) ==
    IF n = 0 THEN {<<>>}
    ELSE {Append(l, o) : l \in PromptOutcomeLists(llm, n - 1), o \in PromptOutcomes(llm)}

\* _invoke_llm_prompt for a markdown prompt: the state and the value returned.
InvokeLlmPromptUnavailableSilent(st, prompt_name, outcome) ==
    CASE outcome = "reply" -> [st |-> st, result |-> "md"]
      [] outcome = "unavailable" -> [st |-> st, result |-> None]
      [] outcome = "no_template" ->
            [st |-> [st EXCEPT !.errors = Append(@, ErrorEntry(prompt_name, "not found"))],
             result |-> None]
      [] OTHER ->
            [st |-> [st EXCEPT !.errors = Append(@, ErrorEntry(prompt_name, "failed"))],
             result |-> None]

InvokeLlmPrompt(st, prompt_name, outcome) ==
    CASE outcome = "reply" -> [st |-> st, result |-> "md"]
      [] outcome = "unavailable" ->
            [st |-> [st EXCEPT !.errors = Append(@, ErrorEntry(prompt_name, "skipped"))],
             result |-> None]
      [] outcome = "no_template" ->
            [st |-> [st EXCEPT !.errors = Append(@, ErrorEntry(prompt_name, "not found"))],
             result |-> None]
      [] OTHER ->
            [st |-> [st EXCEPT !.errors = Append(@, ErrorEntry(prompt_name, "failed"))],
             result |-> None]

\* Python's truth test `if result:` on what _invoke_llm_prompt returned.
Truthy(result) == result \notin {None, ""}

Phase1TocReviewPath == <<"/phase1/toc_review.json">>

HolisticChecksPath == <<"/phase2/holistic_checks.json">>

SynthesisPath == <<"/phase2/synthesis.json">>

\* _node_phase1_toc_review_llm
NodePhase1TocReviewLlm(st, outs, t) ==
    LET r == InvokeLlmPrompt(st, "phase1_toc_review.md", outs[1])
    IN IF Truthy(r.result)
       THEN LET s == SyncVfsArtifacts(
                         [r.st EXCEPT !.toc_review = r.result],
                         << [path |-> Phase1TocReviewPath,
                             label |-> "Phase 1 TOC Review"] >>, t)
            IN [st |-> s.st, raises |-> FALSE,
                evs |-> <<Event("node_completed", "phase1_toc_review", None)>> \o s.evs]
       ELSE [st |-> r.st, raises |-> FALSE, evs |-> <<>>]

\* The loop of _node_phase2_holistic_checks over its checks, from check i on.
RECURSIVE RunChecks(_, _, _)
RunChecks(st, outs, i) ==
    IF i > Len(HolisticChecks) THEN [st |-> st, evs |-> <<>>]
    ELSE LET r == InvokeLlmPrompt(st, HolisticChecks[i].prompt, outs[i])
             st1 == IF Truthy(r.result)
                    THEN [r.st EXCEPT !.phase2_data =
                              <<@[1] \cup {HolisticChecks[i].key}>>]
                    ELSE r.st
             ev == IF Truthy(r.result)
                   THEN <<Event("node_completed", HolisticChecks[i].key, None)>>
                   ELSE <<>>
             rest == RunChecks(st1, outs, i + 1)
         IN [st |-> rest.st, evs |-> ev \o rest.evs]

\* _node_phase2_holistic_checks
NodePhase2HolisticChecks(st, outs, t) ==
    LET st0 == IF st.phase2_data = <<>> THEN [st EXCEPT !.phase2_data = <<{}>>] ELSE st
        c == RunChecks(st0, outs, 1)
        s == SyncVfsArtifacts(c.st,
                 << [path |-> HolisticChecksPath,
                     label |-> "Phase 2 Holistic Checks"] >>, t)
    IN [st |-> s.st, raises |-> FALSE, evs |-> c.evs \o s.evs]

\* _node_phase2_synthesis: storing the result raises KeyError when the state
\* has no phase2_data (the holistic checks never ran on it).
NodePhase2Synthesis(st, outs, t) ==
    LET r == InvokeLlmPrompt(st, "phase2_synthesis_summary.md", outs[1])
    IN IF ~Truthy(r.result) THEN [st |-> r.st, raises |-> FALSE, evs |-> <<>>]
       ELSE IF r.st.phase2_data = <<>>
       THEN [st |-> r.st, raises |-> TRUE, evs |-> <<>>]
       ELSE LET s == SyncVfsArtifacts(
                         [r.st EXCEPT !.phase2_data = <<@[1] \cup {"synthesis"}>>],
                         << [path |-> SynthesisPath,
                             label |-> "Phase 2 Synthesis"] >>, t)
            IN [st |-> s.st, raises |-> FALSE,
                evs |-> <<Event("node_completed", "phase2_synthesis", None)>> \o s.evs]

\* The handler the registry holds for an LLM node.
LlmHandler(node_id, st, outs, t) ==
    CASE node_id = "phase1_toc_review" -> NodePhase1TocReviewLlm(st, outs, t)
      [] node_id = "phase2_holistic_checks" -> NodePhase2HolisticChecks(st, outs, t)
      [] OTHER -> NodePhase2Synthesis(st, outs, t)

\* orchestrate(state) on the state as it is, with the LLM configured or not
\* for the length of the call.
LlmOrchestrateCall(llm) ==
    /\ OrchIdle
    /\ Len(state.errors) + PromptsPerRun <= MaxPromptErrors
    /\ orch' = [pc |-> "running", caller |-> "orchestrate",
                stop |-> ResolveStop(<<>>), start |-> state.control,
                executed |-> <<>>, outcomes |-> <<>>, left |-> <<>>, llm |-> llm]
    /\ events' = <<>>
    /\ UNCHANGED <<state, now, lockcall, sel, p3, hum, vfs, rg, toolcall>>

\* The analyze route: control is set to phase1_toc_review, then orchestrate.
LlmAnalyzeCall(llm) ==
    /\ OrchIdle
    /\ Len(state.errors) + PromptsPerRun <= MaxPromptErrors
    /\ state' = [state EXCEPT !.control = "phase1_toc_review"]
    /\ orch' = [pc |-> "running", caller |-> "analyze",
                stop |-> ResolveStop(<<>>), start |-> "phase1_toc_review",
                executed |-> <<>>, outcomes |-> <<>>, left |-> <<>>, llm |-> llm]
    /\ events' = <<>>
    /\ UNCHANGED <<now, lockcall, sel, p3, hum, vfs, rg, toolcall>>

\* One iteration of the loop of orchestrate that runs an LLM handler, whose
\* prompts meet the outcomes `outs`.
LlmStep(outs) ==
    /\ orch.pc = "running"
    /\ state.control \notin orch.stop
    /\ state.control \in LlmNodes
    /\ outs \in PromptOutcomeLists(orch.llm, PromptCount(state.control))
    /\ \E h \in {LlmHandler(state.control, state, outs, now)} :
         \E r \in {WrapNode(state.control, h.raises, h.st, h.evs)} :
            /\ events' = events \o r.evs
            /\ orch' = [orch EXCEPT
                          !.executed = Append(@, state.control),
                          !.outcomes = Append(@, IF h.raises THEN "raise" ELSE "ok"),
                          !.left = Append(@, r.st.control),
                          !.pc = IF r.exc = NoExc THEN "running" ELSE "raised"]
            /\ state' = IF r.exc = NoExc THEN AdvanceControl(state.control, r.st)
                        ELSE r.st
    /\ UNCHANGED <<now, lockcall, sel, p3, hum, vfs, rg, toolcall>>

\* The steps of a call in progress.
LlmAdvance ==
    \/ \E outs \in PromptOutcomeLists(TRUE, 1) \cup PromptOutcomeLists(FALSE, 1)
           \cup PromptOutcomeLists(TRUE, Len(HolisticChecks))
           \cup PromptOutcomeLists(FALSE, Len(HolisticChecks)) : LlmStep(outs)
    \/ OrchestrateReturn

InitLlm ==
    /\ \E c \in {"phase1_toc_review", "phase2_synthesis"} :
           state = [NewState EXCEPT !.control = c]
    /\ now = 1
    /\ lockcall = NoCall
    /\ orch = NoOrch
    /\ events = <<>>
    /\ sel = NoSel
    /\ p3 = NoPhase3
    /\ hum = NoHum
    /\ vfs = NoVfs
    /\ rg = NoRg
    /\ toolcall = NoTool

NextLlm ==
    \/ \E llm \in BOOLEAN : LlmOrchestrateCall(llm)
    \/ \E llm \in BOOLEAN : LlmAnalyzeCall(llm)
    \/ LlmAdvance

SpecLlm == InitLlm /\ [][NextLlm]_vars

\* A call in progress is carried on to its end.
SpecLlmLive == SpecLlm /\ WF_vars(LlmAdvance)

(***************************************************************************)
(* Properties of the LLM-driven handlers (checked under SpecLlmLive)       *)
(***************************************************************************)

\* The prompt files the three handlers invoke.
LlmPrompts ==
    {"phase1_toc_review.md", "phase2_synthesis_summary.md"}
        \cup {HolisticChecks[i].prompt : i \in DOMAIN HolisticChecks}

\* A call of orchestrate made with the LLM not configured.
UnavailableRun == orch.pc # "idle" /\ ~orch.llm

\* C25: with the LLM unavailable, every prompt invocation returns no result
\* and appends exactly one reason to errors; no handler raises, each handler
\* step adds one error per prompt it invokes, and a call of orchestrate
\* started at phase1_toc_review runs the three handlers and reaches
\* control = completed.
C25_UnavailableLlmRunCompletes ==
    /\ [](\A p \in LlmPrompts :
            LET r == InvokeLlmPrompt(state, p, "unavailable")
            IN /\ r.result = None
               /\ r.st = [state EXCEPT !.errors = Append(@, ErrorEntry(p, "skipped"))])
    /\ [][(orch.pc = "running" /\ ~orch.llm
            /\ Len(orch'.executed) = Len(orch.executed) + 1)
           => /\ orch'.pc = "running"
              /\ Len(state'.errors) = Len(state.errors) + PromptCount(state.control)
              /\ state'.vfs_artifacts \in {state.vfs_artifacts,
                      Append(state.vfs_artifacts,
                             [path |-> HolisticChecksPath,
                              label |-> "Phase 2 Holistic Checks",
                              last_updated |-> now])}]_vars
    /\ []((UnavailableRun /\ orch.start = "phase1_toc_review" /\ orch.pc = "returned")
           => /\ state.control = "completed"
              /\ orch.executed = <<"phase1_toc_review", "phase2_holistic_checks",
                                    "phase2_synthesis">>)
    /\ (UnavailableRun /\ orch.start = "phase1_toc_review" /\ orch.pc = "running")
           ~> (orch.pc = "returned" /\ state.control = "completed")

\* C25 witness: such a call has returned with control = completed and the
\* six reasons, one per prompt, in errors.
C25_Witness ==
    /\ UnavailableRun
    /\ orch.start = "phase1_toc_review"
    /\ orch.pc = "returned"
    /\ state.control = "completed"
    /\ Len(state.errors) = PromptsPerRun
    /\ \A i \in DOMAIN state.errors : state.errors[i].text = "skipped"
    /\ state.errors[1].node = "phase1_toc_review.md"
    /\ state.toc_review = None

(***************************************************************************)
(* Properties of the run lock (checked under SpecLock)                     *)
(***************************************************************************)

\* C1: an acquire by a session while a different session holds the lock
\* raises the conflict and leaves the owner and the lock timestamp as they
\* were.
C1_ConflictLeavesLockUnchanged ==
    (lockcall.op = "acquire" /\ lockcall.pre_owner \notin {None, lockcall.session})
        => /\ lockcall.exc = "RunLocked"
           /\ state.locked_by = lockcall.pre_owner
           /\ state.lock_timestamp = lockcall.pre_ts

\* Session B asked for the lock A had taken earlier, and was refused.
C1_Witness ==
    /\ lockcall.op = "acquire"
    /\ lockcall.session = "B"
    /\ lockcall.pre_owner = "A"
    /\ lockcall.exc = "RunLocked"
    /\ state.locked_by = "A"
    /\ state.lock_timestamp < now

\* C18: an acquire by the session that already owns the lock raises nothing
\* and leaves the owner and the lock timestamp exactly as they were.
C18_ReacquireIsNoOp ==
    (lockcall.op = "acquire" /\ lockcall.pre_owner = lockcall.session)
        => /\ lockcall.exc = NoExc
           /\ state.locked_by = lockcall.pre_owner
           /\ state.lock_timestamp = lockcall.pre_ts

\* C18 witness: A asked again for the lock it took at an earlier time.
C18_Witness ==
    /\ lockcall.op = "acquire"
    /\ lockcall.session = "A"
    /\ lockcall.pre_owner = "A"
    /\ lockcall.exc = NoExc
    /\ state.locked_by = "A"
    /\ state.lock_timestamp < now

\* C19: a release clears the owner and the lock timestamp when the caller is
\* the owner, and only then: by a non-owner, or on an unlocked run, it
\* changes neither.
C19_ReleaseOnlyByOwner ==
    lockcall.op = "release" =>
        IF lockcall.pre_owner = lockcall.session
        THEN state.locked_by = None /\ state.lock_timestamp = NoTime
        ELSE /\ state.locked_by = lockcall.pre_owner
             /\ state.lock_timestamp = lockcall.pre_ts

\* C19 witness: B released while A owned the lock, which A still holds.
C19_Witness ==
    /\ lockcall.op = "release"
    /\ lockcall.session = "B"
    /\ lockcall.pre_owner = "A"
    /\ state.locked_by = "A"
    /\ state.lock_timestamp # NoTime

(***************************************************************************)
(* Plan execution entry point (handle_user_message)                        *)
(***************************************************************************)

\* Largest number of steps of a plan.
MaxPlanSteps == 2

\* The tool names a plan step may carry: a read-only tool and a tool that
\* changes the run and can fail.
PlanTools == {"get_summary", "run_phase3_all"}

PlanStepLists == UNION { [1..n -> PlanTools] : n \in 0..MaxPlanSteps }

\* What _node_agent_planner_llm can come back with: nothing because the LLM
\* is unavailable (the reason goes to errors), nothing because the reply is
\* empty or has no plan_steps list, an exception on a reply it cannot read,
\* or a plan.
PlannerOutcomes ==
    { [kind |-> k, plan_steps |-> <<>>, requires_confirmation |-> FALSE] :
          k \in {"unavailable", "no_plan", "raise"} }
    \cup
    { [kind |-> "plan", plan_steps |-> steps, requires_confirmation |-> rc] :
          steps \in PlanStepLists, rc \in BOOLEAN }

\* The suggested changes of the run the messages are about.
HumChanges ==
    <<[id |-> "c1", type |-> "grammar", original_text |-> <<"x">>,
       severity |-> "low"]>>

\* What one step can meet: the capability answer and the verifier answer a
\* run_phase3 step gets (unused by the other tools).
StepInputs ==
    [result : {r \in ApplyResults(HumChanges) :
                  r.raises \/ (r.applied_change_ids # {} /\ r.new_raw_markdown # "")},
     verifier : {"no_issues"}]

\* _execute_tool for one step: the state it leaves and whether it raised.
ExecuteTool(st, tool_name, input, t) ==
    CASE tool_name = "run_phase3_all" ->
            LET r == RunPhase3(st, <<>>, None, input.result, input.verifier, t)
            IN [st |-> r.st, raised |-> r.pc = "raised"]
      [] tool_name = "get_summary" -> [st |-> st, raised |-> FALSE]
      [] OTHER -> [st |-> st, raised |-> TRUE]

\* The step of _execute_agent_plan for one plan step: the failure of the
\* tool is caught and recorded, and the loop goes on.
StepEntry(tool_name, raised) ==
    [tool |-> tool_name, status |-> IF raised THEN "failed" ELSE "success"]

HumOthersUnchanged == UNCHANGED <<now, lockcall, orch, events, sel, p3, vfs, rg, toolcall>>

\* handle_user_message is entered: _acquire_run_lock reads the owner.
HumCall(s, auto_execute) ==
    /\ hum[s].pc \in {"idle", "done"}
    /\ hum' = [hum EXCEPT ![s] = [NoHumCall EXCEPT !.pc = "lock_read",
                                                   !.owner = state.locked_by,
                                                   !.auto = auto_execute]]
    /\ UNCHANGED state
    /\ HumOthersUnchanged

\* _acquire_run_lock decides on the owner it read: it raises the conflict
\* (the call ends, nothing acquired) or takes the lock.
HumAcquire(s) ==
    LET r == AcquireWithOwner(state, hum[s].owner, s, now) IN
    /\ hum[s].pc = "lock_read"
    /\ state' = r.st
    /\ hum' = [hum EXCEPT ![s] =
                 IF r.exc = NoExc
                 THEN [@ EXCEPT !.pc = "planning", !.acquired = TRUE,
                                !.owner = None]
                 ELSE [@ EXCEPT !.pc = "done", !.exc = r.exc, !.owner = None]]
    /\ HumOthersUnchanged

\* The planner runs; the call goes on to execute the plan, or heads for the
\* finally block with the response it has.
HumPlan(s, outcome) ==
    /\ hum[s].pc = "planning"
    /\ outcome.kind = "unavailable" => Len(state.errors) < MaxErrors
    /\ state' = IF outcome.kind = "unavailable"
                THEN [state EXCEPT !.errors =
                         Append(@, ErrorEntry("agent_planner.md", "skipped"))]
                ELSE state
    /\ hum' = [hum EXCEPT ![s] =
                 CASE outcome.kind = "raise" ->
                        [@ EXCEPT !.pc = "cleanup", !.exc = "PlannerError"]
                   [] outcome.kind \in {"unavailable", "no_plan"} ->
                        [@ EXCEPT !.pc = "cleanup"]
                   [] outcome.requires_confirmation \/ ~hum[s].auto ->
                        [@ EXCEPT !.pc = "cleanup",
                                  !.status = "pending_confirmation"]
                   [] outcome.plan_steps = <<>> ->
                        [@ EXCEPT !.pc = "cleanup", !.status = "success"]
                   [] OTHER ->
                        [@ EXCEPT !.pc = "executing",
                                  !.plan = outcome.plan_steps]]
    /\ HumOthersUnchanged

\* _execute_agent_plan runs the next step of the plan.
HumStepStopsAtFailure(s, input) ==
    /\ hum[s].pc = "executing"
    /\ LET steps == hum[s].plan
           i == Len(hum[s].results) + 1
           tool == steps[i]
       IN /\ tool = "run_phase3_all" => state.version < MaxVersion
          /\ tool # "run_phase3_all" =>
                 input = CHOOSE x \in StepInputs : TRUE
          /\ \E r \in {ExecuteTool(state, tool, input, now)} :
                /\ Len(r.st.errors) <= MaxErrors
                /\ state' = r.st
                /\ hum' = [hum EXCEPT ![s] =
                             [@ EXCEPT !.results =
                                           Append(@, StepEntry(tool, r.raised)),
                                       !.pc = IF i = Len(steps) \/ r.raised THEN "cleanup"
                                              ELSE "executing",
                                       !.status = IF i = Len(steps) \/ r.raised THEN "success"
                                                  ELSE @]]
    /\ HumOthersUnchanged

HumStep(s, input) ==
    /\ hum[s].pc = "executing"
    /\ LET steps == hum[s].plan
           i == Len(hum[s].results) + 1
           tool == steps[i]
       IN /\ tool = "run_phase3_all" => state.version < MaxVersion
          /\ tool # "run_phase3_all" =>
                 input = CHOOSE x \in StepInputs : TRUE
          /\ \E r \in {ExecuteTool(state, tool, input, now)} :
                /\ Len(r.st.errors) <= MaxErrors
                /\ state' = r.st
                /\ hum' = [hum EXCEPT ![s] =
                             [@ EXCEPT !.results =
                                           Append(@, StepEntry(tool, r.raised)),
                                       !.pc = IF i = Len(steps) THEN "cleanup"
                                              ELSE "executing",
                                       !.status = IF i = Len(steps) THEN "success"
                                                  ELSE @]]
    /\ HumOthersUnchanged

\* The finally block: the transcript entry is appended to the log file, then
\* the lock is released.  When the append fails its exception leaves the
\* block at once.
HumCleanup(s, append_ok) ==
    /\ hum[s].pc = "cleanup"
    /\ state' = IF append_ok THEN ReleaseRunLock(state, s) ELSE state
    /\ hum' = [hum EXCEPT ![s] =
                 [@ EXCEPT !.pc = "done", !.plan = <<>>, !.results = <<>>,
                           !.requires_confirmation = FALSE,
                           !.exc = IF append_ok THEN @ ELSE "TranscriptError"]]
    /\ HumOthersUnchanged

InitHum ==
    /\ state = [NewState EXCEPT
                  !.suggested_changes = HumChanges,
                  !.raw_text = "d0",
                  !.control = "completed"]
    /\ now = 1
    /\ lockcall = NoCall
    /\ orch = NoOrch
    /\ events = <<>>
    /\ sel = NoSel
    /\ p3 = NoPhase3
    /\ hum = NoHum
    /\ vfs = NoVfs
    /\ rg = NoRg
    /\ toolcall = NoTool

NextHum ==
    \/ \E s \in Sessions, auto \in BOOLEAN : HumCall(s, auto)
    \/ \E s \in Sessions : HumAcquire(s)
    \/ \E s \in Sessions, o \in PlannerOutcomes : HumPlan(s, o)
    \/ \E s \in Sessions, x \in StepInputs : HumStep(s, x)
    \/ \E s \in Sessions, ok \in BOOLEAN : HumCleanup(s, ok)

SpecHum == InitHum /\ [][NextHum]_vars

(***************************************************************************)
(* handle_user_message called by one session at a time                     *)
(***************************************************************************)

\* The session that sends the messages.
Caller == "A"

\* The tool names of the plans: those of PlanTools and a name _execute_tool
\* does not know.
AllPlanTools == PlanTools \cup {"unknown_tool"}

AllPlanStepLists == UNION { [1..n -> AllPlanTools] : n \in 0..MaxPlanSteps }

\* What the planner can come back with, over the plans of AllPlanStepLists.
AllPlannerOutcomes ==
    { o \in PlannerOutcomes : o.kind # "plan" }
    \cup
    { [kind |-> "plan", plan_steps |-> steps, requires_confirmation |-> rc] :
          steps \in AllPlanStepLists, rc \in BOOLEAN }

\* handle_user_message from its entry to the point where the plan is about
\* to be executed or the response is set: the lock is taken (or the conflict
\* raised, which ends the call), the planner runs, and the confirmation test
\* is made.  The response keeps the plan it is given.
PlanCallIgnoresAutoExecute(auto_execute, outcome) ==
    /\ hum[Caller].pc \in {"idle", "done"}
    /\ outcome.kind = "unavailable" => Len(state.errors) < MaxErrors
    /\ \E l \in {AcquireRunLock(state, Caller, now)} :
         LET call == [NoHumCall EXCEPT !.auto = auto_execute]
             planned == IF outcome.kind = "unavailable"
                        THEN [l.st EXCEPT !.errors =
                                 Append(@, ErrorEntry("agent_planner.md", "skipped"))]
                        ELSE l.st
         IN IF l.exc # NoExc
            THEN /\ state' = l.st
                 /\ hum' = [hum EXCEPT ![Caller] =
                                [call EXCEPT !.pc = "done", !.exc = l.exc]]
            ELSE /\ state' = planned
                 /\ hum' = [hum EXCEPT ![Caller] =
                      CASE outcome.kind = "raise" ->
                             [call EXCEPT !.pc = "cleanup", !.acquired = TRUE,
                                          !.exc = "PlannerError"]
                        [] outcome.kind \in {"unavailable", "no_plan"} ->
                             [call EXCEPT !.pc = "cleanup", !.acquired = TRUE]
                        [] outcome.requires_confirmation ->
                             [call EXCEPT !.pc = "cleanup", !.acquired = TRUE,
                                          !.status = "pending_confirmation",
                                          !.plan = outcome.plan_steps,
                                          !.requires_confirmation =
                                              outcome.requires_confirmation]
                        [] outcome.plan_steps = <<>> ->
                             [call EXCEPT !.pc = "cleanup", !.acquired = TRUE,
                                          !.status = "success"]
                        [] OTHER ->
                             [call EXCEPT !.pc = "executing", !.acquired = TRUE,
                                          !.plan = outcome.plan_steps,
                                          !.requires_confirmation =
                                              outcome.requires_confirmation]]
    /\ HumOthersUnchanged

PlanCall(auto_execute, outcome) ==
    /\ hum[Caller].pc \in {"idle", "done"}
    /\ outcome.kind = "unavailable" => Len(state.errors) < MaxErrors
    /\ \E l \in {AcquireRunLock(state, Caller, now)} :
         LET call == [NoHumCall EXCEPT !.auto = auto_execute]
             planned == IF outcome.kind = "unavailable"
                        THEN [l.st EXCEPT !.errors =
                                 Append(@, ErrorEntry("agent_planner.md", "skipped"))]
                        ELSE l.st
         IN IF l.exc # NoExc
            THEN /\ state' = l.st
                 /\ hum' = [hum EXCEPT ![Caller] =
                                [call EXCEPT !.pc = "done", !.exc = l.exc]]
            ELSE /\ state' = planned
                 /\ hum' = [hum EXCEPT ![Caller] =
                      CASE outcome.kind = "raise" ->
                             [call EXCEPT !.pc = "cleanup", !.acquired = TRUE,
                                          !.exc = "PlannerError"]
                        [] outcome.kind \in {"unavailable", "no_plan"} ->
                             [call EXCEPT !.pc = "cleanup", !.acquired = TRUE]
                        [] outcome.requires_confirmation \/ ~auto_execute ->
                             [call EXCEPT !.pc = "cleanup", !.acquired = TRUE,
                                          !.status = "pending_confirmation",
                                          !.plan = outcome.plan_steps,
                                          !.requires_confirmation =
                                              outcome.requires_confirmation]
                        [] outcome.plan_steps = <<>> ->
                             [call EXCEPT !.pc = "cleanup", !.acquired = TRUE,
                                          !.status = "success"]
                        [] OTHER ->
                             [call EXCEPT !.pc = "executing", !.acquired = TRUE,
                                          !.plan = outcome.plan_steps,
                                          !.requires_confirmation =
                                              outcome.requires_confirmation]]
    /\ HumOthersUnchanged

\* The run the messages are about is unlocked, or locked by another session.
InitPlan ==
    /\ \E owner \in {None, "B"} :
           state = [NewState EXCEPT
                      !.suggested_changes = HumChanges,
                      !.raw_text = "d0",
                      !.control = "completed",
                      !.locked_by = owner,
                      !.lock_timestamp = IF owner = None THEN NoTime ELSE 1]
    /\ now = 1
    /\ lockcall = NoCall
    /\ orch = NoOrch
    /\ events = <<>>
    /\ sel = NoSel
    /\ p3 = NoPhase3
    /\ hum = NoHum
    /\ vfs = NoVfs
    /\ rg = NoRg
    /\ toolcall = NoTool

NextPlan ==
    \/ \E auto \in BOOLEAN, o \in AllPlannerOutcomes : PlanCall(auto, o)
    \/ \E x \in StepInputs : HumStep(Caller, x)
    \/ \E ok \in BOOLEAN : HumCleanup(Caller, ok)

SpecPlan == InitPlan /\ [][NextPlan]_vars

(***************************************************************************)
(* Properties of plan execution (checked under SpecPlan)                   *)
(***************************************************************************)

\* C26: handle_user_message executes no plan step when the plan requires
\* confirmation or auto_execute is false: a call that executes or has
\* succeeded was made with auto_execute on a plan not requiring
\* confirmation; a call answered pending_confirmation goes from its entry
\* straight to the finally block with the plan and no execution results,
\* having changed the Run State by the lock acquisition only, and the finally
\* block changes nothing but the lock.
C26_PendingConfirmationRunsNothing ==
    /\ []((hum[Caller].pc = "executing" \/ hum[Caller].results # <<>>
              \/ hum[Caller].status = "success")
           => hum[Caller].auto /\ ~hum[Caller].requires_confirmation)
    /\ []((hum[Caller].pc = "cleanup" /\ hum[Caller].exc = NoExc
            /\ hum[Caller].status = "failed")
           => hum[Caller].plan = <<>>)
    /\ [][(hum[Caller].pc \in {"idle", "done"}
            /\ hum'[Caller].status = "pending_confirmation")
           => /\ hum'[Caller].pc = "cleanup"
              /\ hum'[Caller].results = <<>>
              /\ ~hum'[Caller].auto \/ hum'[Caller].requires_confirmation
              /\ state' = [state EXCEPT !.locked_by = Caller,
                                         !.lock_timestamp =
                                             IF state.locked_by = Caller
                                             THEN @ ELSE now]]_vars
    /\ [][(hum[Caller].pc = "cleanup"
            /\ hum[Caller].status = "pending_confirmation")
           => /\ hum'[Caller].pc = "done"
              /\ hum'[Caller].status = "pending_confirmation"
              /\ state' \in {state, [state EXCEPT !.locked_by = None,
                                                   !.lock_timestamp = NoTime]}]_vars

\* C26 witness: a call made with auto_execute false on a two-step plan that
\* does not require confirmation has its response ready, nothing executed.
C26_Witness ==
    /\ hum[Caller].pc = "cleanup"
    /\ hum[Caller].status = "pending_confirmation"
    /\ ~hum[Caller].auto
    /\ ~hum[Caller].requires_confirmation
    /\ hum[Caller].plan = <<"run_phase3_all", "get_summary">>
    /\ hum[Caller].results = <<>>
    /\ state.version = 1
    /\ state.phase3_status = "pending"
    /\ state.locked_by = Caller

C2_LockReleasedOnExit ==
    \A s \in Sessions :
        (hum[s].pc = "done" /\ hum[s].acquired) => state.locked_by # s

\* A session is between its lock acquisition and its release.
Holding(s) == hum[s].pc \in {"planning", "executing", "cleanup"}

\* C34 as stated: no two sessions are between acquisition and release at
\* once, and while a session executes plan steps locked_by names it.
C34_LockGivesMutualExclusion ==
    /\ \A s, t \in Sessions : (Holding(s) /\ Holding(t)) => s = t
    /\ \A s \in Sessions : hum[s].pc = "executing" => state.locked_by = s

(***************************************************************************)
(* Virtual file system adapter (DocReviewVFSAdapter)                       *)
(***************************************************************************)

\* A path is a tuple of pieces: the slash "/", the blank " ", or the text
\* that follows the leading slash of a file name.
DocumentPath == <<"/", "original/document.md">>

SuggestedChangesPath == <<"/", "changes/suggested_changes.json">>

AppliedChangesFilePath == <<"/", "changes/applied_changes.json">>

CurrentVersionPath == <<"/", "versions/current.md">>

PreviousVersionPath == <<"/", "versions/previous.md">>

\* The paths handed to the adapter: the files of the namespace, spelled with
\* and without the leading slash and with blanks around, the root, the
\* empty path and a path outside the namespace.
VfsPaths ==
    { <<>>, <<"/">>, <<" ">>,
      DocumentPath, <<"original/document.md">>, DocumentPath \o <<" ">>,
      <<" ">> \o DocumentPath,
      SuggestedChangesPath, <<"changes/suggested_changes.json">>,
      AppliedChangesFilePath, CurrentVersionPath, PreviousVersionPath,
      <<"/", "phase1/doc_summary.json">>, <<"/", "etc/passwd">> }

\* The paths read_file is followed on here (its other branches read fields
\* of phase 1 and phase 2).
VfsReadPaths ==
    { p \in VfsPaths :
        \E i \in 1..Len(p) :
            p[i] \in {"original/document.md", "changes/suggested_changes.json",
                      "changes/applied_changes.json", "versions/current.md",
                      "versions/previous.md", "etc/passwd"} }

\* _normalize: the root for no path, a leading slash added when missing,
\* trailing blanks removed.
Normalize(path) ==
    IF path = <<>> THEN <<"/">>
    ELSE LET slashed == IF path[1] # "/" THEN <<"/">> \o path ELSE path
             stripped == StripRight(slashed)
         IN IF stripped = <<>> THEN <<"/">> ELSE stripped

\* The data strings written: document texts and JSON texts.
VfsData == {"", "d1", "[]", "[c1]", "{}"}

\* json.loads on a data string: the value, or a decode error.
JsonLoads(data) ==
    CASE data = "[]" -> [ok |-> TRUE, is_list |-> TRUE, value |-> <<>>]
      [] data = "[c1]" ->
            [ok |-> TRUE, is_list |-> TRUE,
             value |-> <<[id |-> "c1", type |-> "grammar",
                          original_text |-> <<"x">>, severity |-> "low"]>>]
      [] data = "{}" -> [ok |-> TRUE, is_list |-> FALSE, value |-> <<>>]
      [] OTHER -> [ok |-> FALSE, is_list |-> FALSE, value |-> <<>>]

\* _to_json: json.dumps(..., indent=2) of a value, here told by what it
\* dumps ("{}" stands for the dump of a missing value).
ToJson(kind, value) == <<"json", kind, value>>

\* Largest number of characters of a section title.
MaxTitleLen == 4

\* The characters of the section titles explored: an upper-case letter, a
\* lower-case letter, a blank and an underscore.
TitleChars == {"A", "b", " ", "_"}

\* The section titles explored, as tuples of characters.
Titles == UNION { [1..n -> TitleChars] : n \in 0..MaxTitleLen }

\* str.isalnum() and str.lower() on one character.
IsAlnum(ch) == ch \in {"A", "b"}

LowerChar(ch) == IF ch = "A" THEN "a" ELSE ch

\* str.strip("_")
RECURSIVE StripUnderscores(_)
StripUnderscores(t) ==
    IF t # <<>> /\ Head(t) = "_" THEN StripUnderscores(Tail(t))
    ELSE IF t # <<>> /\ t[Len(t)] = "_"
    THEN StripUnderscores(SubSeq(t, 1, Len(t) - 1))
    ELSE t

\* _slugify_section
SlugifySection(title) ==
    LET mapped == [i \in DOMAIN title |->
                       IF IsAlnum(title[i]) THEN LowerChar(title[i]) ELSE "_"]
        stripped == StripUnderscores(mapped)
    IN IF stripped = <<>> THEN <<"s", "e", "c", "t", "i", "o", "n">> ELSE stripped

\* The directories of the namespace.
RootDir == <<"/">>

OriginalDir == <<"/", "original">>

Phase1Dir == <<"/", "phase1">>

Phase2Dir == <<"/", "phase2">>

SectionsDir == <<"/", "phase2/sections">>

ReviewsDir == <<"/", "phase2/reviews">>

ChangesDir == <<"/", "changes">>

VersionsDir == <<"/", "versions">>

Directories ==
    {RootDir, OriginalDir, Phase1Dir, Phase2Dir, SectionsDir, ReviewsDir,
     ChangesDir, VersionsDir}

\* The path of the entry `name` of directory d: d, a slash, the name.  The
\* files under the two section directories are the prefix piece followed by
\* the characters of the name.
Child(d, name) ==
    CASE d = RootDir -> <<"/">> \o name
      [] d = OriginalDir /\ name = <<"document.md">> -> DocumentPath
      [] d = Phase1Dir /\ name = <<"doc_summary.json">> ->
            <<"/", "phase1/doc_summary.json">>
      [] d = Phase1Dir /\ name = <<"toc_review.json">> ->
            <<"/", "phase1/toc_review.json">>
      [] d = Phase1Dir /\ name = <<"template_fitness.json">> ->
            <<"/", "phase1/template_fitness.json">>
      [] d = Phase1Dir /\ name = <<"section_strategy.json">> ->
            <<"/", "phase1/section_strategy.json">>
      [] d = Phase2Dir /\ name = <<"sections">> -> SectionsDir
      [] d = Phase2Dir /\ name = <<"reviews">> -> ReviewsDir
      [] d = Phase2Dir /\ name = <<"summary_report.json">> ->
            <<"/", "phase2/summary_report.json">>
      [] d = SectionsDir -> <<"/", "phase2/sections/">> \o name
      [] d = ReviewsDir -> <<"/", "phase2/reviews/">> \o name
      [] d = ChangesDir /\ name = <<"suggested_changes.json">> -> SuggestedChangesPath
      [] d = ChangesDir /\ name = <<"applied_changes.json">> -> AppliedChangesFilePath
      [] d = VersionsDir /\ name = <<"current.md">> -> CurrentVersionPath
      [] d = VersionsDir /\ name = <<"previous.md">> -> PreviousVersionPath
      [] OTHER -> d \o <<"/">> \o name

\* The truth value Python gives a text (None and the empty text are false)
\* and a report ("{}" stands for the empty dict; None and it are false).
FilledText(value) == value \notin {None, ""}

Filled(value) == value \notin {None, "{}"}

Entry(name, type) == [name |-> name, type |-> type]

\* _directory_entries: one file entry per name whose data is not None.
DirectoryEntries(files) ==
    LET kept == SelectSeq(files, LAMBDA f : f.present)
    IN [i \in DOMAIN kept |-> Entry(<<kept[i].name>>, "file")]

\* _root_entries
RootEntries(st) ==
    (IF FilledText(st.raw_text) THEN <<Entry(<<"original">>, "directory")>> ELSE <<>>)
    \o (IF \/ Filled(st.doc_summary) \/ Filled(st.toc_review)
           \/ Filled(st.template_fitness_report) \/ Filled(st.section_strategy)
        THEN <<Entry(<<"phase1">>, "directory")>> ELSE <<>>)
    \o (IF st.chunks # <<>> \/ st.reviews # {} \/ Filled(st.summary_report)
        THEN <<Entry(<<"phase2">>, "directory")>> ELSE <<>>)
    \o <<Entry(<<"changes">>, "directory"), Entry(<<"versions">>, "directory")>>

\* The code point of a title character, and the order sorted() puts two
\* titles in.
CodePoint(ch) ==
    CASE ch = " " -> 32 [] ch = "A" -> 65 [] ch = "_" -> 95 [] ch = "b" -> 98
      [] OTHER -> 0

RECURSIVE TitleBefore(_, _)
TitleBefore(a, b) ==
    IF a = <<>> THEN b # <<>>
    ELSE IF b = <<>> THEN FALSE
    ELSE IF Head(a) = Head(b) THEN TitleBefore(Tail(a), Tail(b))
    ELSE CodePoint(Head(a)) < CodePoint(Head(b))

\* _list_section_chunks: one file per chunk title in sorted order, named by
\* the slug of the title and the suffix of the kind.
ListSectionChunksNamedByTitle(st, kind) ==
    LET titles == SortSeq(st.chunks, TitleBefore)
        suffix == IF kind = "sections" THEN ".md" ELSE ".json"
    IN [i \in DOMAIN titles |-> Entry(titles[i] \o <<suffix>>, "file")]

ListSectionChunks(st, kind) ==
    LET titles == SortSeq(st.chunks, TitleBefore)
        suffix == IF kind = "sections" THEN ".md" ELSE ".json"
    IN [i \in DOMAIN titles |->
            Entry(SlugifySection(titles[i]) \o <<suffix>>, "file")]

\* list_dir
ListDir(st, path) ==
    LET p == Normalize(path) IN
    CASE p = RootDir -> [entries |-> RootEntries(st), exc |-> NoExc]
      [] p = OriginalDir ->
            [entries |-> DirectoryEntries(
                 <<[name |-> "document.md", present |-> st.raw_text # None]>>),
             exc |-> NoExc]
      [] p = Phase1Dir ->
            [entries |-> DirectoryEntries(
                 <<[name |-> "doc_summary.json", present |-> st.doc_summary # None],
                   [name |-> "toc_review.json", present |-> st.toc_review # None],
                   [name |-> "template_fitness.json",
                    present |-> st.template_fitness_report # None],
                   [name |-> "section_strategy.json",
                    present |-> st.section_strategy # None]>>),
             exc |-> NoExc]
      [] p = Phase2Dir ->
            [entries |->
                 (IF st.chunks # <<>>
                  THEN <<Entry(<<"sections">>, "directory")>> ELSE <<>>)
                 \o (IF st.reviews # {}
                     THEN <<Entry(<<"reviews">>, "directory")>> ELSE <<>>)
                 \o (IF Filled(st.summary_report)
                     THEN <<Entry(<<"summary_report.json">>, "file")>> ELSE <<>>),
             exc |-> NoExc]
      [] p = SectionsDir ->
            [entries |-> ListSectionChunks(st, "sections"), exc |-> NoExc]
      [] p = ReviewsDir ->
            [entries |-> ListSectionChunks(st, "reviews"), exc |-> NoExc]
      [] p = ChangesDir ->
            [entries |-> DirectoryEntries(
                 <<[name |-> "suggested_changes.json", present |-> TRUE],
                   [name |-> "applied_changes.json", present |-> TRUE]>>),
             exc |-> NoExc]
      [] p = VersionsDir ->
            [entries |-> DirectoryEntries(
                 <<[name |-> "current.md", present |-> st.raw_text # None]>>
                 \o (IF st.pre_apply_text # <<>> /\ st.pre_apply_text # <<"">>
                     THEN <<[name |-> "previous.md", present |-> TRUE]>>
                     ELSE <<>>)),
             exc |-> NoExc]
      [] OTHER -> [entries |-> <<>>, exc |-> "FileNotFoundError"]

\* _resolve_section_from_path on a normalised path under one of the two
\* section directories: the first chunk title whose slug is the file name
\* without its suffix.
ResolveSectionFromPath(st, p, suffix) ==
    LET rest == SubSeq(p, 3, Len(p))
        slashes == {i \in DOMAIN rest : rest[i] = "/"}
        start == IF slashes = {} THEN 1
                 ELSE 1 + CHOOSE i \in slashes : \A j \in slashes : j <= i
        filename == SubSeq(rest, start, Len(rest))
        slug == SubSeq(filename, 1, Len(filename) - 1)
        matching == {i \in DOMAIN st.chunks : SlugifySection(st.chunks[i]) = slug}
    IN IF filename = <<>> \/ filename[Len(filename)] # suffix \/ matching = {}
       THEN [found |-> FALSE, title |-> <<>>]
       ELSE [found |-> TRUE,
             title |-> st.chunks[CHOOSE i \in matching : \A j \in matching : i <= j]]

\* write_file
WriteFileAnywhere(st, path, data) ==
    [st |-> [st EXCEPT !.raw_text = data], exc |-> NoExc]

WriteFile(st, path, data) ==
    LET p == Normalize(path) IN
    IF p = DocumentPath
    THEN [st |-> [st EXCEPT !.raw_text = data], exc |-> NoExc]
    ELSE IF p = SuggestedChangesPath
    THEN LET parsed == JsonLoads(data)
         IN IF ~parsed.ok \/ ~parsed.is_list
            THEN [st |-> st, exc |-> "ValueError"]
            ELSE [st |-> [st EXCEPT !.suggested_changes = parsed.value],
                  exc |-> NoExc]
    ELSE [st |-> st, exc |-> "PermissionError"]

\* read_file
ReadFileStale(st, path) ==
    [result |-> "", exc |-> NoExc]

ReadFile(st, path) ==
    LET p == Normalize(path) IN
    CASE p \in {DocumentPath, CurrentVersionPath} ->
            [result |-> IF st.raw_text \in {None, ""} THEN "" ELSE st.raw_text,
             exc |-> NoExc]
      [] p = SuggestedChangesPath ->
            [result |-> ToJson("suggested_changes", st.suggested_changes),
             exc |-> NoExc]
      [] p = AppliedChangesFilePath ->
            [result |-> ToJson("applied", <<st.applied_change_ids,
                                             st.failed_changes>>),
             exc |-> NoExc]
      [] p = PreviousVersionPath ->
            IF st.pre_apply_text = <<>> \/ st.pre_apply_text = <<"">>
            THEN [result |-> "", exc |-> "FileNotFoundError"]
            ELSE [result |-> st.pre_apply_text[1], exc |-> NoExc]
      [] p = <<"/", "phase1/doc_summary.json">> ->
            [result |-> ToJson("doc_summary", st.doc_summary), exc |-> NoExc]
      [] p = <<"/", "phase1/toc_review.json">> ->
            [result |-> ToJson("toc_review", st.toc_review), exc |-> NoExc]
      [] p = <<"/", "phase1/template_fitness.json">> ->
            [result |-> ToJson("template_fitness_report",
                               st.template_fitness_report),
             exc |-> NoExc]
      [] p = <<"/", "phase1/section_strategy.json">> ->
            [result |-> ToJson("section_strategy", st.section_strategy),
             exc |-> NoExc]
      [] p = <<"/", "phase2/summary_report.json">> ->
            [result |-> ToJson("summary_report", st.summary_report), exc |-> NoExc]
      [] Len(p) >= 2 /\ p[2] = "phase2/reviews/" ->
            LET section == ResolveSectionFromPath(st, p, ".json")
            IN IF ~section.found THEN [result |-> "", exc |-> "FileNotFoundError"]
               ELSE [result |-> ToJson("review",
                                       IF section.title \in st.reviews
                                       THEN <<section.title>> ELSE <<>>),
                     exc |-> NoExc]
      [] Len(p) >= 2 /\ p[2] = "phase2/sections/" ->
            LET section == ResolveSectionFromPath(st, p, ".md")
            IN IF ~section.found THEN [result |-> "", exc |-> "FileNotFoundError"]
               ELSE [result |-> <<"text", section.title>>, exc |-> NoExc]
      [] OTHER -> [result |-> "", exc |-> "FileNotFoundError"]

\* str.rstrip("/") on a path that ends with a slash.
RECURSIVE RStripSlash(_)
RStripSlash(t) ==
    IF t = <<>> THEN t
    ELSE IF t[Len(t)] = "/" THEN RStripSlash(SubSeq(t, 1, Len(t) - 1))
    ELSE IF t[Len(t)] = "phase2/sections/"
    THEN SubSeq(t, 1, Len(t) - 1) \o <<"phase2/sections">>
    ELSE IF t[Len(t)] = "phase2/reviews/"
    THEN SubSeq(t, 1, Len(t) - 1) \o <<"phase2/reviews">>
    ELSE t

\* stat: a directory for the eight directory names, else the file read_file
\* finds.
Stat(st, path) ==
    LET p == Normalize(path)
        q == RStripSlash(p)
    IN IF q \in Directories THEN [type |-> "directory", exc |-> NoExc]
       ELSE LET content == ReadFile(st, q)
            IN IF content.exc = NoExc THEN [type |-> "file", exc |-> NoExc]
               ELSE [type |-> "", exc |-> content.exc]

\* A write_file call on the adapter of the run.
VfsWrite(path, data) ==
    /\ \E r \in {WriteFile(state, path, data)} :
          /\ state' = r.st
          /\ vfs' = [op |-> "write", path |-> path, data |-> data,
                     exc |-> r.exc, result |-> ""]
    /\ UNCHANGED <<now, lockcall, orch, events, sel, p3, hum, rg, toolcall>>

\* A read_file call on the adapter of the run.
VfsRead(path) ==
    /\ \E r \in {ReadFile(state, path)} :
          vfs' = [op |-> "read", path |-> path, data |-> "",
                  exc |-> r.exc, result |-> r.result]
    /\ UNCHANGED <<state, now, lockcall, orch, events, sel, p3, hum, rg, toolcall>>

\* The runs the adapter is opened on: a fresh run, and runs with a text and
\* with the snapshot of an application.
InitVfs ==
    /\ \E txt \in {"", "d0"}, snap \in {<<>>, <<"d0">>} :
           state = [NewState EXCEPT !.raw_text = txt,
                                    !.pre_apply_text = snap,
                                    !.control = "completed"]
    /\ now = 1
    /\ lockcall = NoCall
    /\ orch = NoOrch
    /\ events = <<>>
    /\ sel = NoSel
    /\ p3 = NoPhase3
    /\ hum = NoHum
    /\ vfs = NoVfs
    /\ rg = NoRg
    /\ toolcall = NoTool

NextVfs ==
    \/ \E path \in VfsPaths, data \in VfsData : VfsWrite(path, data)
    \/ \E path \in VfsReadPaths : VfsRead(path)

SpecVfs == InitVfs /\ [][NextVfs]_vars

\* The two writable paths, as the claims name them.
WritablePaths == {DocumentPath, SuggestedChangesPath}

\* C13 as stated: a write on any path other than the two writable paths
\* fails with the read-only error and leaves the run unchanged.
C13_OtherPathsReadOnly ==
    [][ (vfs'.op = "write" /\ vfs'.path \notin WritablePaths)
            => (vfs'.exc = "PermissionError" /\ state' = state) ]_vars

\* C13, amended: a write on any path that does not normalise to one of the
\* two writable paths fails with the read-only error and leaves the run
\* unchanged.
C13_OtherNormalisedPathsReadOnly ==
    [][ (vfs'.op = "write" /\ Normalize(vfs'.path) \notin WritablePaths)
            => (vfs'.exc = "PermissionError" /\ state' = state) ]_vars

\* C13 witness: a write on /phase1/doc_summary.json was refused on a run
\* that holds a text.
C13_Witness ==
    /\ vfs.op = "write"
    /\ vfs.path = <<"/", "phase1/doc_summary.json">>
    /\ vfs.data = "d1"
    /\ vfs.exc = "PermissionError"
    /\ state.raw_text = "d0"

\* C14: a write of x on /original/document.md succeeds, and a read of
\* /original/document.md or of /versions/current.md that follows it at once
\* returns exactly x.
C14_WriteThenReadDocument ==
    /\ [](vfs.op = "write" /\ vfs.path = DocumentPath
              => vfs.exc = NoExc /\ state.raw_text = vfs.data)
    /\ [][ ( /\ vfs.op = "write" /\ vfs.path = DocumentPath
             /\ vfs'.op = "read"
             /\ vfs'.path \in {DocumentPath, CurrentVersionPath} )
           => (vfs'.exc = NoExc /\ vfs'.result = vfs.data) ]_vars

\* C14 witness: d1 was written over d0 and read back through
\* /versions/current.md.
C14_Witness ==
    /\ vfs.op = "read"
    /\ vfs.path = CurrentVersionPath
    /\ vfs.result = "d1"
    /\ state.raw_text = "d1"

(***************************************************************************)
(* The namespace of the adapter: list_dir, stat and read_file on a run     *)
(***************************************************************************)

\* Two titles with the slug a_b, and a title whose slug falls back.
CollidingTitles == {<<"A", " ", "b">>, <<"A", "_", "b">>, <<" ">>}

\* The chunk dicts explored (their titles in insertion order): none, one
\* section of any title, and two sections out of a few titles.
FewTitles == CollidingTitles \cup {<<"A">>, <<"b">>}

TwoChunkLists == {l \in {<<t, u>> : t \in FewTitles, u \in FewTitles} : l[1] # l[2]}

ChunkLists == {<<>>} \cup {<<t>> : t \in Titles} \cup TwoChunkLists

\* The reports a phase field can hold: none, an empty one, one with content.
Reports == {None, "{}", "report"}

\* The runs the adapter is opened on.  Runs with two sections come with and
\* without a review; the other fields vary on runs with no section and with
\* the two sections whose slugs collide.
TreeStates ==
    { [NewState EXCEPT !.chunks = c, !.control = "completed"] : c \in ChunkLists }
    \cup
    { [NewState EXCEPT !.chunks = c, !.reviews = {<<"A", " ", "b">>},
                       !.control = "completed"] : c \in TwoChunkLists \cup {<<>>} }
    \cup
    { [NewState EXCEPT !.chunks = c, !.raw_text = txt, !.pre_apply_text = snap,
                       !.summary_report = sr, !.doc_summary = ds,
                       !.toc_review = tr, !.control = "completed"] :
          c \in {<<>>, <<<<"A", " ", "b">>, <<"A", "_", "b">>>>},
          txt \in {None, "", "d0"}, snap \in {<<>>, <<"d0">>},
          sr \in Reports, ds \in Reports, tr \in {None, "md"} }

\* The paths list_dir and stat are called with: the directories, spelled
\* also without the leading slash, with a trailing slash and with a trailing
\* blank, and paths that are no directory.
TreePaths ==
    Directories
    \cup {<<"phase2">>, Phase2Dir \o <<"/">>, Phase2Dir \o <<" ">>,
          <<"/", "phase2/sections/">>, <<>>, <<"/", "phase3">>,
          DocumentPath, PreviousVersionPath, <<"/", "etc/passwd">>,
          <<"/", "phase2/sections/", "a", "_", "b", ".json">>,
          <<"/", "phase2/reviews/", "a", ".json">>}

\* A list_dir call on the adapter of the run.
VfsList(path) ==
    /\ \E r \in {ListDir(state, path)} :
          vfs' = [op |-> "list", path |-> path, data |-> "",
                  exc |-> r.exc, result |-> r.entries]
    /\ UNCHANGED <<state, now, lockcall, orch, events, sel, p3, hum, rg, toolcall>>

\* A stat call on the adapter of the run.
VfsStat(path) ==
    /\ \E r \in {Stat(state, path)} :
          vfs' = [op |-> "stat", path |-> path, data |-> "",
                  exc |-> r.exc, result |-> r.type]
    /\ UNCHANGED <<state, now, lockcall, orch, events, sel, p3, hum, rg, toolcall>>

\* The last call listed a directory; its i-th entry is opened: a directory
\* entry is listed, a file entry is read or asked for its stat.
VfsOpenEntry(i, how) ==
    /\ vfs.op = "list"
    /\ vfs.exc = NoExc
    /\ i \in DOMAIN vfs.result
    /\ LET child == Child(Normalize(vfs.path), vfs.result[i].name)
       IN IF vfs.result[i].type = "directory"
          THEN how = "list" /\ VfsList(child)
          ELSE \/ how = "read" /\ VfsRead(child)
               \/ how = "stat" /\ VfsStat(child)

InitTree ==
    /\ state \in TreeStates
    /\ now = 1
    /\ lockcall = NoCall
    /\ orch = NoOrch
    /\ events = <<>>
    /\ sel = NoSel
    /\ p3 = NoPhase3
    /\ hum = NoHum
    /\ vfs = NoVfs
    /\ rg = NoRg
    /\ toolcall = NoTool

NextTree ==
    \/ \E path \in TreePaths : VfsList(path)
    \/ \E path \in TreePaths : VfsStat(path)
    \/ \E path \in VfsReadPaths : VfsRead(path)
    \/ \E i \in 1..4, how \in {"list", "read", "stat"} : VfsOpenEntry(i, how)

SpecTree == InitTree /\ [][NextTree]_vars

(***************************************************************************)
(* Properties of the namespace (checked under SpecTree)                    *)
(***************************************************************************)

\* At least one of the phase-2 fields of the run is non-empty.
Phase2Filled ==
    state.chunks # <<>> \/ state.reviews # {} \/ Filled(state.summary_report)

\* The names list_dir returns for a directory of the run.
NamesIn(d) ==
    {ListDir(state, d).entries[i].name : i \in DOMAIN ListDir(state, d).entries}

\* C33 as stated: a list_dir call on the root returns an entry phase2 exactly
\* when a phase-2 field of the run is non-empty, and a list_dir or stat call
\* on /phase2 succeeds when one is and fails with the not-found error when
\* all three are empty.
C33_Phase2ExistsIffFilled ==
    /\ (vfs.op = "list" /\ vfs.path = RootDir) =>
          ((\E i \in DOMAIN vfs.result : vfs.result[i].name = <<"phase2">>)
               <=> Phase2Filled)
    /\ (vfs.op \in {"list", "stat"} /\ vfs.path = Phase2Dir) =>
          vfs.exc = (IF Phase2Filled THEN NoExc ELSE "FileNotFoundError")

\* The slug as documented: alphanumeric characters in lower case, every
\* other character an underscore, each run of underscores collapsed into
\* one, leading and trailing underscores removed.
RECURSIVE Collapse(_)
Collapse(t) ==
    IF Len(t) < 2 THEN t
    ELSE IF t[1] = "_" /\ t[2] = "_" THEN Collapse(Tail(t))
    ELSE <<t[1]>> \o Collapse(Tail(t))

ReferenceSlug(title) ==
    StripUnderscores(Collapse([i \in DOMAIN title |->
                                   IF IsAlnum(title[i]) THEN LowerChar(title[i])
                                   ELSE "_"]))

\* C35 as stated: a list_dir call on /phase2/sections or /phase2/reviews
\* names the file of every section title of the run by the documented slug
\* of the title.
C35_SlugIsReferenceSlug ==
    \A d \in {SectionsDir, ReviewsDir} :
        (vfs.op = "list" /\ vfs.path = d) =>
            \A i \in DOMAIN state.chunks :
                \E j \in DOMAIN vfs.result :
                    vfs.result[j].name =
                        ReferenceSlug(state.chunks[i])
                            \o <<IF d = SectionsDir THEN ".md" ELSE ".json">>

\* C38: in every run, each entry list_dir returns for a directory of the
\* namespace resolves: a directory entry can be listed, a file entry can be
\* read and has a stat, none with the not-found error; and an entry opened
\* right after its listing is found.
C38_ListedEntriesResolve ==
    /\ \A d \in Directories :
         \A i \in DOMAIN ListDir(state, d).entries :
            LET e == ListDir(state, d).entries[i]
                child == Child(d, e.name)
            IN IF e.type = "directory"
               THEN ListDir(state, child).exc = NoExc
               ELSE /\ ReadFile(state, child).exc = NoExc
                    /\ Stat(state, child).exc = NoExc
    /\ \A d \in Directories : ListDir(state, d).exc = NoExc

\* C38 witness: on a run whose two section titles have the same slug, the
\* file a_b.md listed under /phase2/sections was read; it is the text of the
\* section that was inserted first.
C38_Witness ==
    /\ state.chunks = <<<<"A", "_", "b">>, <<"A", " ", "b">>>>
    /\ vfs.op = "read"
    /\ vfs.path = <<"/", "phase2/sections/", "a", "_", "b", ".md">>
    /\ vfs.exc = NoExc
    /\ vfs.result = <<"text", <<"A", "_", "b">>>>

(***************************************************************************)
(* The pre-apply snapshot seen through the adapter (checked under          *)
(* SpecApply)                                                              *)
(***************************************************************************)

\* C40: whenever no run_phase3 call is between its apply_changes node and
\* its verify_changes node (before a call, and after a call has returned or
\* raised), the run holds no _pre_apply_text, /versions/previous.md is not
\* listed under /versions and reading it fails with the not-found error; so
\* no call starts with the snapshot of an earlier one.
C40_SnapshotOnlyUntilVerification ==
    Phase3Idle =>
        /\ state.pre_apply_text = <<>>
        /\ <<"previous.md">> \notin NamesIn(VersionsDir)
        /\ ReadFile(state, PreviousVersionPath).exc = "FileNotFoundError"
        /\ Stat(state, PreviousVersionPath).exc = "FileNotFoundError"

\* C40 witness: a run_phase3 call that applied a change (d0 became d1 at
\* version 2) has returned after verification, and the snapshot is gone
\* while the new text is served as /versions/current.md.
C40_Witness ==
    /\ p3.pc = "done"
    /\ state.version = 2
    /\ state.raw_text = "d1"
    /\ state.applied_change_ids # {}
    /\ state.phase3_status = "success"
    /\ state.pre_apply_text = <<>>
    /\ <<"current.md">> \in NamesIn(VersionsDir)

(***************************************************************************)
(* The registered artifacts seen through the adapter (checked under        *)
(* SpecCore)                                                               *)
(***************************************************************************)

\* The path string of a registered artifact as the path handed to the
\* adapter: the same characters, cut into the pieces the adapter's paths are
\* made of.
AsVfsPath(p) ==
    CASE p = OriginalPath("document.md") -> DocumentPath
      [] p = AppliedChangesPath -> AppliedChangesFilePath
      [] p = Phase1TocReviewPath -> <<"/", "phase1/toc_review.json">>
      [] p = HolisticChecksPath -> <<"/", "phase2/holistic_checks.json">>
      [] p = SynthesisPath -> <<"/", "phase2/synthesis.json">>
      [] p[1] = "/versions/v" -> <<"/", "versions/v", p[2], "_document.md">>
      [] p[1] = "/original/" -> <<"/", "original/", p[2]>>
      [] OTHER -> <<"/">> \o p

\* C39 as stated: every path registered in vfs_artifacts of a run is a path
\* read_file resolves on that run, without the not-found error.
C39_ArtifactPathsResolve ==
    \A i \in DOMAIN state.vfs_artifacts :
        ReadFile(state, AsVfsPath(state.vfs_artifacts[i].path)).exc = NoExc

(***************************************************************************)
(* Assistant router (RiskGPTAgent.run and its nodes)                       *)
(***************************************************************************)

\* self.max_steps
max_steps == 10

\* The controls the loop of run dispatches on.
RouterNodes ==
    {"context_loader", "intent_classifier", "block_improver", "chat_responder",
     "doc_searcher"}

Intents ==
    {"improve_blocks", "general_question", "search_document", "compliance_check"}

\* What the LLM client can answer to a node: the call errors, the reply is
\* not the JSON the node reads, or it is; a JSON reply carries an intent
\* (or none: "missing"), requires_doc_search and the suggestions.
LlmReplies ==
    { [kind |-> k, intent |-> "missing", requires_doc_search |-> FALSE,
       suggestions |-> <<>>] : k \in {"error", "unparseable"} }
    \cup
    { [kind |-> "json", intent |-> i, requires_doc_search |-> d,
       suggestions |-> sg] :
          i \in Intents \cup {"missing"}, d \in BOOLEAN,
          sg \in {<<>>, <<"s1">>} }

\* _make_node_result merged by state.update: the node is logged and named
\* as last_node, and control is set.
NodeResult(r, node_name, control) ==
    [r EXCEPT !.last_node = node_name,
              !.control = control,
              !.logs = Append(@, node_name)]

\* context_loader_node: the selected blocks are the blocks of the document
\* whose id is selected.
ContextLoader(r) ==
    [st |-> [NodeResult(r, "context_loader", "intent_classifier") EXCEPT
               !.selected_blocks =
                   IF r.selected_block_ids # {} /\ r.block_metadata # {}
                   THEN r.block_metadata \cap r.selected_block_ids
                   ELSE {}],
     raised |-> FALSE]

\* intent_classifier_node
IntentClassifierRoutesOnIds(r, reply) ==
    LET has_selected_blocks == r.selected_block_ids # {}
        intent == IF reply.intent = "missing" THEN "general_question"
                  ELSE reply.intent
        next_control ==
            IF intent = "improve_blocks" /\ has_selected_blocks
            THEN "block_improver"
            ELSE IF intent = "search_document" \/ reply.requires_doc_search
            THEN "doc_searcher"
            ELSE "chat_responder"
    IN [st |-> [NodeResult(r, "intent_classifier", next_control) EXCEPT
                  !.classifier = reply.kind,
                  !.intent = intent,
                  !.requires_doc_search = reply.requires_doc_search],
        raised |-> FALSE]

IntentClassifier(r, reply) ==
    LET has_selected_blocks == r.selected_blocks # {}
        intent == IF reply.intent = "missing" THEN "general_question"
                  ELSE reply.intent
        next_control ==
            IF intent = "improve_blocks" /\ has_selected_blocks
            THEN "block_improver"
            ELSE IF intent = "search_document" \/ reply.requires_doc_search
            THEN "doc_searcher"
            ELSE "chat_responder"
        fallback_control ==
            IF has_selected_blocks THEN "block_improver" ELSE "chat_responder"
    IN IF ~r.llm
       THEN [st |-> [r EXCEPT !.classifier = "unavailable"], raised |-> TRUE]
       ELSE IF reply.kind = "json"
       THEN [st |-> [NodeResult(r, "intent_classifier", next_control) EXCEPT
                       !.classifier = "json",
                       !.intent = intent,
                       !.requires_doc_search = reply.requires_doc_search],
             raised |-> FALSE]
       ELSE [st |-> [NodeResult(r, "intent_classifier", fallback_control) EXCEPT
                       !.classifier = reply.kind,
                       !.intent = IF has_selected_blocks THEN "improve_blocks"
                                  ELSE "general_question",
                       !.requires_doc_search = FALSE],
             raised |-> FALSE]

\* block_improver_node
BlockImprover(r, reply) ==
    IF ~r.llm THEN [st |-> r, raised |-> TRUE]
    ELSE [st |-> [NodeResult(r, "block_improver", "end") EXCEPT
                    !.block_suggestions =
                        IF reply.kind = "json" THEN reply.suggestions ELSE <<>>,
                    !.response =
                        IF reply.kind = "json" THEN "analysis" ELSE "Error"],
          raised |-> FALSE]

\* chat_responder_node and doc_searcher_node: the reply is taken as text.
TextResponder(r, node_name, reply) ==
    IF ~r.llm THEN [st |-> r, raised |-> TRUE]
    ELSE [st |-> [NodeResult(r, node_name, "end") EXCEPT
                    !.response =
                        IF reply.kind = "error" THEN "Sorry" ELSE "answer"],
          raised |-> FALSE]

\* end_node: the output is formatted from what the last node left.
EndNodeWithoutOutput(r) ==
    NodeResult(r, "end", "end")

EndNode(r) ==
    [NodeResult(r, "end", "end") EXCEPT
       !.final_output =
           <<CASE r.last_node = "block_improver" ->
                    [analysis |-> r.response, suggestions |-> r.block_suggestions]
               [] r.last_node \in {"chat_responder", "doc_searcher"} ->
                    [analysis |-> r.response, suggestions |-> <<>>]
               [] OTHER ->
                    [analysis |-> "No response generated", suggestions |-> <<>>]>>]

\* The node the loop dispatches to on a control.
RunRouterNode(r, reply) ==
    CASE r.control = "context_loader" -> ContextLoader(r)
      [] r.control = "intent_classifier" -> IntentClassifier(r, reply)
      [] r.control = "block_improver" -> BlockImprover(r, reply)
      [] r.control = "chat_responder" -> TextResponder(r, "chat_responder", reply)
      [] r.control = "doc_searcher" -> TextResponder(r, "doc_searcher", reply)

\* What run returns: the formatted output, or the error answer of its
\* except branch.
RouterOutput(r) ==
    IF r.final_output = <<>>
    THEN [analysis |-> "No response generated", suggestions |-> <<>>,
          error |-> FALSE]
    ELSE [analysis |-> r.final_output[1].analysis,
          suggestions |-> r.final_output[1].suggestions, error |-> FALSE]

RouterErrorOutput ==
    [analysis |-> "Error processing request", suggestions |-> <<>>,
     error |-> TRUE]

\* run is called: the state is initialised with control context_loader.
RouterRun(ids, blocks, llm) ==
    /\ rg.pc \in {"idle", "returned"}
    /\ rg' = [NoRg EXCEPT !.pc = "running", !.llm = llm,
                          !.selected_block_ids = ids,
                          !.block_metadata = blocks,
                          !.control = "context_loader"]
    /\ UNCHANGED <<state, now, lockcall, orch, events, sel, p3, hum, vfs, toolcall>>

\* One pass of the loop that runs a node: the updates are merged, or the
\* node raises and run returns the error answer.
RouterStep(reply) ==
    /\ rg.pc = "running"
    /\ rg.step < max_steps
    /\ rg.control \in RouterNodes
    /\ (rg.control = "context_loader" \/ ~rg.llm) =>
           reply = CHOOSE x \in LlmReplies : TRUE
    /\ \E n \in {RunRouterNode(rg, reply)} :
          rg' = IF n.raised
                THEN [n.st EXCEPT !.pc = "returned", !.step = @ + 1,
                                  !.output = <<RouterErrorOutput>>]
                ELSE [n.st EXCEPT !.step = @ + 1]
    /\ UNCHANGED <<state, now, lockcall, orch, events, sel, p3, hum, vfs, toolcall>>

\* The loop ends (control is end or names no node, or the steps are used
\* up); end_node formats the output and run returns it.
RouterFinish ==
    /\ rg.pc = "running"
    /\ rg.step >= max_steps \/ rg.control \notin RouterNodes
    /\ \E e \in {EndNode(rg)} :
          rg' = [e EXCEPT !.pc = "returned",
                          !.step = IF @ < max_steps THEN @ + 1 ELSE @,
                          !.output = <<RouterOutput(e)>>]
    /\ UNCHANGED <<state, now, lockcall, orch, events, sel, p3, hum, vfs, toolcall>>

\* The requests explored: no block selected, a block of the document, an id
\* the document does not have; a document with and without blocks.
RouterIdArgs == {{}, {"b1"}, {"zz"}}

RouterBlockArgs == {{}, {"b1", "b2"}}

InitRouter ==
    /\ state = NewState
    /\ now = 1
    /\ lockcall = NoCall
    /\ orch = NoOrch
    /\ events = <<>>
    /\ sel = NoSel
    /\ p3 = NoPhase3
    /\ hum = NoHum
    /\ vfs = NoVfs
    /\ rg = NoRg
    /\ toolcall = NoTool

RouterAdvance == (\E reply \in LlmReplies : RouterStep(reply)) \/ RouterFinish

NextRouter ==
    \/ \E ids \in RouterIdArgs, blocks \in RouterBlockArgs, llm \in BOOLEAN :
           RouterRun(ids, blocks, llm)
    \/ \E reply \in LlmReplies : RouterStep(reply)
    \/ RouterFinish

SpecRouter == InitRouter /\ [][NextRouter]_vars

\* A run that has started is carried on by its own thread until it returns.
SpecRouterLive == SpecRouter /\ WF_vars(RouterAdvance)

(***************************************************************************)
(* Properties of the assistant router                                      *)
(***************************************************************************)

\* The state a node was called with, as that object is once the node has
\* returned and before run merges the returned updates: _make_node_result
\* takes the list the state holds under "logs" and appends its entry to it.
\* A node that raises has not reached _make_node_result.
InputAfterNode(r, reply) ==
    IF RunRouterNode(r, reply).raised THEN r
    ELSE [r EXCEPT !.logs = Append(@, r.control)]

InputAfterEndNode(r) == [r EXCEPT !.logs = Append(@, "end")]

\* C36 as stated: whichever node run calls next (one of the five nodes of
\* the loop, or end_node when the loop is over), and whatever the LLM
\* answers, the state the node was given is the same after the call as
\* before it, its logs list included.
C36_NodesLeaveTheirInputUnchanged ==
    rg.pc = "running" =>
        IF rg.step < max_steps /\ rg.control \in RouterNodes
        THEN \A reply \in LlmReplies : InputAfterNode(rg, reply) = rg
        ELSE InputAfterEndNode(rg) = rg


\* The node names logged by the run, in order.
RouterRan(node_name) == \E i \in 1..Len(rg.logs) : rg.logs[i] = node_name

\* C15: for a request with zero selected blocks, whenever the classifier
\* fails (the call errors, the reply is unparseable, or the LLM is
\* unavailable) the run is not aborted: right after the classifier control
\* is chat_responder, and the run returns an output formatted after
\* chat_responder ran, with no suggestions.
C15_ClassifierFailureFallsBackToChat ==
    (rg.selected_block_ids = {}
     /\ rg.classifier \in {"error", "unparseable", "unavailable"})
        => /\ rg.last_node = "intent_classifier" => rg.control = "chat_responder"
           /\ rg.pc = "returned" =>
                 /\ ~rg.output[1].error
                 /\ RouterRan("chat_responder")
                 /\ rg.output[1].suggestions = <<>>

\* The control the classifier is to give for an intent, a number of
\* resolved selected blocks and requiresDocSearch.
ClassifierRoute(intent, n_selected, requires_doc_search) ==
    IF intent = "improve_blocks" /\ n_selected >= 1 THEN "block_improver"
    ELSE IF intent = "search_document" \/ requires_doc_search THEN "doc_searcher"
    ELSE "chat_responder"

\* C16: when the classifier succeeds, the control it leaves is the function
\* ClassifierRoute of the intent, the number of selected blocks resolved by
\* context_loader and requiresDocSearch, and so one of block_improver,
\* doc_searcher and chat_responder.
C16_ClassifierRouting ==
    (rg.classifier = "json" /\ rg.last_node = "intent_classifier")
        => rg.control = ClassifierRoute(rg.intent,
                                        Cardinality(rg.selected_blocks),
                                        rg.requires_doc_search)

\* C16 witness: improve_blocks was asked with a selected id that the
\* document does not have, so no block is resolved and chat_responder is next.
C16_Witness ==
    /\ rg.classifier = "json"
    /\ rg.last_node = "intent_classifier"
    /\ rg.intent = "improve_blocks"
    /\ rg.selected_block_ids = {"zz"}
    /\ rg.selected_blocks = {}
    /\ rg.control = "chat_responder"

\* The nodes the loop has run (end_node, run after the loop, left out).
RouterNodesRun == Len(SelectSeq(rg.logs, LAMBDA n : n # "end"))

ToolNames ==
    {"detect_file_type", "convert_to_markdown", "extract_images",
     "compute_file_stats", "analyze_heading_structure", "build_file_metadata",
     "apply_changes_deterministic", "extract_toc", "unknown_tool"}

\* _call_tool: how the call ends.  has_path tells whether the payload names
\* a source path, converts whether convert_pdf_to_json returns.
CallTool(tool_name, has_path, converts) ==
    CASE tool_name = "convert_to_markdown" ->
            IF ~has_path THEN "ValueError"
            ELSE IF ~converts THEN "ConversionError" ELSE NoExc
      [] tool_name \in {"extract_images", "compute_file_stats",
                        "analyze_heading_structure", "build_file_metadata",
                        "apply_changes_deterministic"} -> NoExc
      [] OTHER -> "NotImplementedError"

\* The tools the nodes of _run_phase0_ingestion call, in the order of the
\* nodes (the TOC extraction and the statistics nodes call no tool).
Phase0Tools ==
    <<"detect_file_type", "convert_to_markdown", "extract_images",
      "compute_file_stats", "analyze_heading_structure", "build_file_metadata">>

\* _run_phase0_ingestion on an upload called `name`: the nodes run in order
\* up to the first one whose tool call fails; `last` is the last tool called
\* and exc how that call ended.  The conversion node stores the (empty)
\* markdown and registers the two originals.
RunPhase0Ingestion(st, name, has_path, converts, t) ==
    LET failing == {i \in DOMAIN Phase0Tools :
                        CallTool(Phase0Tools[i], has_path, converts) # NoExc}
        stops == IF failing = {} THEN Len(Phase0Tools)
                 ELSE CHOOSE i \in failing : \A j \in failing : i <= j
        converted == [RegisterOriginals(st, name, t) EXCEPT !.raw_text = ""]
    IN [st |-> IF stops > 2 \/ (stops = 2 /\ failing = {}) THEN converted ELSE st,
        raises |-> failing # {},
        last |-> Phase0Tools[stops],
        exc |-> CallTool(Phase0Tools[stops], has_path, converts),
        evs |-> [i \in 1..(IF failing = {} THEN stops ELSE stops - 1) |->
                     Event("node_completed", Phase0Tools[i], None)]]

\* A direct _call_tool call.
CallToolCall(tool_name, has_path, converts) ==
    /\ toolcall' = [op |-> "call", tool_name |-> tool_name,
                    exc |-> CallTool(tool_name, has_path, converts)]
    /\ UNCHANGED <<state, now, lockcall, orch, events, sel, p3, hum, vfs, rg>>

\* The iteration of orchestrate that runs the phase0_ingestion handler.
IngestionStep(name, has_path, converts) ==
    /\ orch.pc = "running"
    /\ state.control = "phase0_ingestion"
    /\ state.control \notin orch.stop
    /\ \E h \in {RunPhase0Ingestion(state, name, has_path, converts, now)} :
         \E r \in {WrapNode("phase0_ingestion", h.raises, h.st, h.evs)} :
            /\ events' = events \o r.evs
            /\ orch' = [orch EXCEPT
                          !.executed = Append(@, "phase0_ingestion"),
                          !.outcomes = Append(@, IF h.raises THEN "raise" ELSE "ok"),
                          !.left = Append(@, r.st.control),
                          !.pc = IF r.exc = NoExc THEN "running" ELSE "raised"]
            /\ state' = IF r.exc = NoExc
                        THEN AdvanceControl("phase0_ingestion", r.st)
                        ELSE r.st
            /\ toolcall' = [op |-> "ingestion", tool_name |-> h.last, exc |-> h.exc]
    /\ UNCHANGED <<now, lockcall, sel, p3, hum, vfs, rg>>

InitTools ==
    /\ state = NewState
    /\ now = 1
    /\ lockcall = NoCall
    /\ orch = NoOrch
    /\ events = <<>>
    /\ sel = NoSel
    /\ p3 = NoPhase3
    /\ hum = NoHum
    /\ vfs = NoVfs
    /\ rg = NoRg
    /\ toolcall = NoTool

NextTools ==
    \/ \E n \in ToolNames, has_path \in BOOLEAN, converts \in BOOLEAN :
           CallToolCall(n, has_path, converts)
    \/ RunPhase1Call /\ toolcall' = toolcall
    \/ \E name \in SourceNames, has_path \in BOOLEAN, converts \in BOOLEAN :
           IngestionStep(name, has_path, converts)
    \/ Tick

SpecTools == InitTools /\ [][NextTools]_vars

\* The seven names of the dispatch table as documented.
DispatchTable ==
    {"detect_file_type", "convert_to_markdown", "extract_images",
     "compute_file_stats", "analyze_heading_structure", "build_file_metadata",
     "apply_changes_deterministic"}

\* C32 as stated: a _call_tool call fails with NotImplementedError exactly
\* when its tool name is none of the seven names of the dispatch table, and
\* the ingestion handler is never stopped by a NotImplementedError.
C32_SevenToolsAccepted ==
    /\ toolcall.op = "call" =>
          (toolcall.tool_name \in DispatchTable
               <=> toolcall.exc # "NotImplementedError")
    /\ toolcall.op = "ingestion" => toolcall.exc # "NotImplementedError"

(***************************************************************************)
(* Every core operation on one Run State                                   *)
(***************************************************************************)

\* The operation families of the core, each told by the call record it
\* keeps: the lock operations, orchestrate with the phase runs, selection,
\* run_phase3, handle_user_message and the adapter's writes.
Families == {"lock", "orchestrate", "select", "phase3", "message", "vfs"}

\* No operation of the family has been called on the run yet.
Untouched(family) ==
    CASE family = "lock" -> lockcall = NoCall
      [] family = "orchestrate" -> orch = NoOrch
      [] family = "select" -> sel = NoSel
      [] family = "phase3" -> p3 = NoPhase3
      [] family = "message" -> hum = NoHum
      [] family = "vfs" -> vfs = NoVfs

\* The run is driven by the operations of one family.
Only(family) == \A f \in Families \ {family} : Untouched(f)

\* The runs the operations are called on: a run that holds a text and
\* suggested changes, about to be analysed, about to be synthesised, or
\* already through its phases.
InitCore ==
    /\ \E c \in {"phase1_toc_review", "phase2_synthesis", "completed"} :
           state = [NewState EXCEPT
                      !.suggested_changes = HumChanges,
                      !.raw_text = "d0",
                      !.control = c]
    /\ now = 1
    /\ lockcall = NoCall
    /\ orch = NoOrch
    /\ events = <<>>
    /\ sel = NoSel
    /\ p3 = NoPhase3
    /\ hum = NoHum
    /\ vfs = NoVfs
    /\ rg = NoRg
    /\ toolcall = NoTool

\* run_phase2 on a run whose errors leave room for those of one more pass
\* through the LLM handlers.
RunPhase2OnRun ==
    /\ OrchIdle
    /\ Len(state.errors) + PromptsPerRun <= MaxPromptErrors
    /\ RunPhase2Call

NextCore ==
    \/ Only("lock") /\ NextLock
    \/ Only("orchestrate") /\ RunPhase2OnRun
    \/ Only("orchestrate") /\ NextLlm
    \/ Only("select") /\ NextSelect
    \/ Only("phase3") /\ NextApply
    \/ Only("message") /\ NextPlan
    \/ Only("vfs") /\ NextVfs

SpecCore == InitCore /\ [][NextCore]_vars

\* C31: errors is append-only: every step of every core operation leaves
\* the errors list it found as a prefix of the errors list it leaves.
C31_ErrorsAppendOnly ==
    [][IsPrefix(state.errors, state'.errors)]_vars

\* C31 witness: a call returned after every prompt of its three handlers
\* had failed; the entry of the first handler's prompt is still the first
\* one and the entry of the last handler's prompt is the last.
C31_Witness ==
    /\ orch.pc = "returned"
    /\ Len(state.errors) = PromptsPerRun
    /\ state.errors[1].text = "failed"
    /\ state.errors[PromptsPerRun].text = "failed"
    /\ state.errors[1].node # state.errors[PromptsPerRun].node

====
